---- MODULE Spec2Model ----
(***************************************************************************)
(* Model of the statistical heading-classification engine of the PDF       *)
(* outline extractor (adobe_1a_solution/pdf_extractor).                    *)
(*                                                                         *)
(* Texts are strings; a character is a string of length one.  Font sizes   *)
(* are integers counted in half points, confidences are integers counted   *)
(* in thousandths, and the font statistics of a document are integers      *)
(* over the common denominator font_stats.den, so that every comparison    *)
(* of the source is decided by exact arithmetic.                           *)
(***************************************************************************)
EXTENDS Integers, Sequences, FiniteSets, TLC

\* ------------------------------------------------------------------------
\* Characters and the string methods of the source language
\* ------------------------------------------------------------------------
UpperAlpha == "ABCDEFGHIJKLMNOPQRSTUVWXYZ"
LowerAlpha == "abcdefghijklmnopqrstuvwxyz"
DigitChars == "0123456789"

\* the pilcrow stands for a digit that is no decimal digit and has no
\* compatibility form, such as the Ethiopic digit one (U+1369): a digit to
\* str.isdigit(), a word character to \w, no digit to \d, and NFKC keeps it
OtherDigit == "¶"

Ch(s, i) == SubSeq(s, i, i)
CharsOf(s) == {Ch(s, i) : i \in 1..Len(s)}

UpperSet == CharsOf(UpperAlpha)
LowerSet == CharsOf(LowerAlpha)
Digits == CharsOf(DigitChars)
Letters == UpperSet \cup LowerSet
Whitespace == {" ", "\t", "\n", "\r"}
WordChars == Letters \cup Digits \cup {"_", OtherDigit}

\* the characters c with ord(c) <= 127
AsciiSet == Letters \cup Digits \cup Whitespace
            \cup CharsOf(" !#$%&'()*+,-./:;<=>?@[]^_{|}~") \cup {"\\", "\""}

\* the characters counted by the punctuation rule of the noise classifier
\* (a string cannot hold a backquote, the last character of the source's class)
SpecialChars == CharsOf("-_=+*#@$%^&(){}[]|:;',.<>?/~!") \cup {"\\", "\""}

ToLowerChar(c) ==
    IF c \in UpperSet
    THEN Ch(LowerAlpha, CHOOSE i \in 1..26 : Ch(UpperAlpha, i) = c)
    ELSE c

\* str.lower(), by halves so that the depth of the recursion stays small
RECURSIVE lower(_)
lower(s) ==
    IF Len(s) = 0 THEN ""
    ELSE IF Len(s) = 1 THEN ToLowerChar(s)
    ELSE LET h == Len(s) \div 2
         IN  lower(SubSeq(s, 1, h)) \o lower(SubSeq(s, h + 1, Len(s)))

HasAt(s, i, p) == i + Len(p) - 1 <= Len(s) /\ SubSeq(s, i, i + Len(p) - 1) = p
startswith(s, p) == HasAt(s, 1, p)
endswith(s, p) == Len(p) <= Len(s) /\ HasAt(s, Len(s) - Len(p) + 1, p)
contains(s, p) == \E i \in 1..(Len(s) + 1) : HasAt(s, i, p)
count(s, c) == Cardinality({i \in 1..Len(s) : Ch(s, i) = c})
count_in(s, S) == Cardinality({i \in 1..Len(s) : Ch(s, i) \in S})
any_in(s, words) == \E n \in 1..Len(words) : contains(s, words[n])
one_of(s, words) == \E n \in 1..Len(words) : s = words[n]

RECURSIVE lstrip(_)
lstrip(s) == IF Len(s) > 0 /\ Head(s) \in Whitespace THEN lstrip(Tail(s)) ELSE s

RECURSIVE rstrip(_)
rstrip(s) ==
    IF Len(s) > 0 /\ Ch(s, Len(s)) \in Whitespace
    THEN rstrip(SubSeq(s, 1, Len(s) - 1))
    ELSE s

strip(s) == rstrip(lstrip(s))

\* str.split(): the number of maximal runs of non-whitespace characters
word_count(s) ==
    Cardinality({i \in 1..Len(s) :
        /\ Ch(s, i) \notin Whitespace
        /\ (i = 1 \/ Ch(s, i - 1) \in Whitespace)})

\* str.isupper(): at least one cased character and no lower-case one
isupper(s) == count_in(s, UpperSet) > 0 /\ count_in(s, LowerSet) = 0

\* str.istitle(): upper case only after uncased, lower case only after cased
istitle(s) ==
    /\ count_in(s, Letters) > 0
    /\ \A i \in 1..Len(s) :
          LET prevCased == i > 1 /\ Ch(s, i - 1) \in Letters
          IN  /\ (Ch(s, i) \in UpperSet => ~prevCased)
              /\ (Ch(s, i) \in LowerSet => prevCased)

\* str.isdigit()
isdigit(s) == Len(s) > 0 /\ count_in(s, Digits \cup {OtherDigit}) = Len(s)

\* re.sub(r'\s+', ' ', text): every run of whitespace becomes one space
RECURSIVE collapse_range(_, _, _)
collapse_range(s, lo, hi) ==
    IF lo > hi THEN ""
    ELSE IF lo = hi
         THEN IF Ch(s, lo) \notin Whitespace THEN Ch(s, lo)
              ELSE IF lo > 1 /\ Ch(s, lo - 1) \in Whitespace THEN "" ELSE " "
    ELSE LET h == (lo + hi) \div 2
         IN  collapse_range(s, lo, h) \o collapse_range(s, h + 1, hi)

collapse_ws(s) == collapse_range(s, 1, Len(s))

\* ------------------------------------------------------------------------
\* Regular expressions: a pattern is a tree, Ends(re, s, I) is the set of
\* positions where a match of re that starts at a position of I can end.
\* ------------------------------------------------------------------------
Lit(p) == [k |-> "lit", p |-> p]
Cls(S) == [k |-> "cls", c |-> S]
Dot == [k |-> "any"]
Cat(l) == [k |-> "seq", l |-> l]
Alt(l) == [k |-> "alt", l |-> l]
Star(r) == [k |-> "star", r |-> r]
Plus(r) == Cat(<<r, Star(r)>>)
Opt(r) == Alt(<<r, Cat(<<>>)>>)
Words(l) == Alt([n \in 1..Len(l) |-> Lit(l[n])])
Bol == [k |-> "bol"]
Eol == [k |-> "eol"]
WordB == [k |-> "wb"]
Sp == Cls(Whitespace)
Dig == Cls(Digits)

IsWordAt(s, i) == i >= 1 /\ i <= Len(s) /\ Ch(s, i) \in WordChars

RECURSIVE Ends(_, _, _)
RECURSIVE Closure(_, _, _)
Ends(re, s, I) ==
    CASE re.k = "lit" -> {i + Len(re.p) : i \in {j \in I : HasAt(s, j, re.p)}}
      [] re.k = "cls" -> {i + 1 : i \in {j \in I : j <= Len(s) /\ Ch(s, j) \in re.c}}
      [] re.k = "any" -> {i + 1 : i \in {j \in I : j <= Len(s) /\ Ch(s, j) # "\n"}}
      [] re.k = "seq" -> IF Len(re.l) = 0 THEN I
                         ELSE Ends(Cat(Tail(re.l)), s, Ends(Head(re.l), s, I))
      [] re.k = "alt" -> UNION {Ends(re.l[n], s, I) : n \in 1..Len(re.l)}
      [] re.k = "star" ->
            IF re.r.k \in {"cls", "any"}
            THEN \* a run of single characters: every position the run reaches
                 {j \in 1..(Len(s) + 1) : \E i \in I : i <= j /\ \A m \in i..(j - 1) :
                        IF re.r.k = "any" THEN Ch(s, m) # "\n" ELSE Ch(s, m) \in re.r.c}
            ELSE Closure(re.r, s, I)
      [] re.k = "bol" -> I \cap {1}
      [] re.k = "eol" -> {i \in I : i = Len(s) + 1 \/ (i = Len(s) /\ Ch(s, i) = "\n")}
      [] re.k = "wb" -> {i \in I : IsWordAt(s, i - 1) # IsWordAt(s, i)}

Closure(r, s, I) ==
    LET J == I \cup Ends(r, s, I)
    IN  IF J = I THEN I ELSE Closure(r, s, J)

\* re.match(pattern, s) and re.search(pattern, s), as truth values
re_match(re, s) == Ends(re, s, {1}) # {}
re_search(re, s) == Ends(re, s, 1..(Len(s) + 1)) # {}

\* ------------------------------------------------------------------------
\* Font Statistics Analyzer (analysis.py)
\* ------------------------------------------------------------------------
Max2(a, b) == IF a >= b THEN a ELSE b
Min2(a, b) == IF a <= b THEN a ELSE b

\* the sum of a list, by halves
RECURSIVE SumSeq(_)
SumSeq(q) ==
    IF Len(q) = 0 THEN 0
    ELSE IF Len(q) = 1 THEN q[1]
    ELSE SumSeq(SubSeq(q, 1, Len(q) \div 2)) + SumSeq(SubSeq(q, Len(q) \div 2 + 1, Len(q)))

\* sorted(font_sizes): the value at place k is the one that fewer than k of
\* the numbers lie below and at least k of them do not exceed
sorted(q) ==
    [k \in 1..Len(q) |->
        CHOOSE v \in {q[i] : i \in 1..Len(q)} :
            /\ Cardinality({i \in 1..Len(q) : q[i] < v}) < k
            /\ k <= Cardinality({i \in 1..Len(q) : q[i] <= v})]

IsPositive(x) == x > 0

\* np.percentile(a, p) of a sorted list by linear interpolation, counted in
\* hundredths of a half point: the value sits at index (n-1)*p/100
percentile100(a, p) ==
    LET pos == (Len(a) - 1) * p
        k == pos \div 100
        r == pos % 100
    IN  IF r = 0 THEN 100 * a[k + 1]
        ELSE 100 * a[k + 1] + r * (a[k + 2] - a[k + 1])

\* round(size) of a size counted in half points: halves go to the even integer
round_size(fs) ==
    IF fs % 2 = 0 THEN fs \div 2
    ELSE IF ((fs - 1) \div 2) % 2 = 0 THEN (fs - 1) \div 2 ELSE (fs + 1) \div 2

\* the statistics when no block has a positive size: mean 12, median 12 and
\* thresholds 16, 14, 12, over the denominator 2
default_font_stats ==
    [den |-> 2, mean |-> 24, median |-> 24, min |-> 0, max |-> 0,
     regime |-> "none", h1 |-> 32, h2 |-> 28, h3 |-> 24]

\* A font size of fs half points, over the denominator of the statistics
size_over(fs, font_stats) == (fs * font_stats.den) \div 2

analyze_font_statistics(blocks) ==
    LET all_sizes == [i \in 1..Len(blocks) |-> blocks[i].font_size]
        font_sizes == SelectSeq(all_sizes, IsPositive)
        n == Len(font_sizes)
        a == sorted(font_sizes)
        \* one point is den units: 2 half points * 100 (percentile) * 100 (factor) * n (mean)
        den == 20000 * n
        pct(p) == percentile100(a, p) * 100 * n
        times(p, m) == percentile100(a, p) * n * m       \* percentile * (m / 100)
        mean == SumSeq(font_sizes) * 10000
        median == pct(50)
        distinct == Cardinality({font_sizes[i] : i \in 1..n})
        font_variety == Cardinality({round_size(font_sizes[i]) : i \in 1..n})
        size_range2 == a[n] - a[1]                        \* in half points
        regime == IF distinct > 3
                  THEN IF font_variety <= 3 /\ size_range2 < 12 THEN "simple"
                       ELSE IF font_variety >= 5 /\ size_range2 > 20 THEN "complex"
                       ELSE "standard"
                  ELSE "fallback"
        h1_threshold ==
            CASE regime = "simple" -> Max2(pct(75), times(50, 130))
              [] regime = "complex" -> Max2(pct(95), times(50, 180))
              [] regime = "standard" -> Max2(pct(90), times(50, 160))
              [] regime = "fallback" -> times(50, 150)
        h2_threshold ==
            CASE regime = "simple" -> Max2(pct(50), times(50, 115))
              [] regime = "complex" -> Max2(pct(90), times(50, 150))
              [] regime = "standard" -> Max2(pct(75), times(50, 140))
              [] regime = "fallback" -> times(50, 130)
        \* heading_thresholds["h3"] ignores the cluster: it is taken from the mean
        \* mean * p / 100 rounded down, the product taken apart to stay small
        part(p) == (mean \div 100) * p + ((mean % 100) * p) \div 100
        h3 == IF mean > 12 * den
              THEN Max2(part(85), 8 * den)
              ELSE Max2(part(80), (15 * den) \div 2)
    IN  IF n = 0 THEN default_font_stats
        ELSE [den |-> den, mean |-> mean, median |-> median,
              min |-> (a[1] * den) \div 2, max |-> (a[n] * den) \div 2,
              regime |-> regime, h1 |-> h1_threshold, h2 |-> h2_threshold, h3 |-> h3]

\* ------------------------------------------------------------------------
\* Noise Classifier (analysis.py, is_noise_with_confidence)
\* Patterns compiled with re.IGNORECASE are written in lower case and are
\* matched against lower(text).
\* ------------------------------------------------------------------------
\* ^\d+\.
re_numbered_item == Cat(<<Plus(Dig), Lit(".")>>)
\* ^Chapter\s+\d+:   (IGNORECASE)
re_chapter == Cat(<<Lit("chapter"), Plus(Sp), Plus(Dig), Lit(":")>>)

form_field_labels ==
    <<"Application form for grant of LTC advance", "Leave Travel Concession",
      "Terms and Conditions">>

document_metadata_patterns ==
    << \* ^International\s+.*\s+Qualifications?\s+Board$
       Cat(<<Lit("international"), Plus(Sp), Star(Dot), Plus(Sp), Lit("qualification"),
             Opt(Lit("s")), Plus(Sp), Lit("board"), Eol>>),
       \* ^.*Software\s+Testing.*Foundation.*Level.*Extension.*Qualifications$
       Cat(<<Star(Dot), Lit("software"), Plus(Sp), Lit("testing"), Star(Dot),
             Lit("foundation"), Star(Dot), Lit("level"), Star(Dot), Lit("extension"),
             Star(Dot), Lit("qualifications"), Eol>>),
       \* ^Copyright\s+©.*International.*$
       Cat(<<Lit("copyright"), Plus(Sp), Lit("©"), Star(Dot), Lit("international"),
             Star(Dot), Eol>>),
       \* ^Version\s+\d+.*Page\s+\d+.*of\s+\d+.*$
       Cat(<<Lit("version"), Plus(Sp), Plus(Dig), Star(Dot), Lit("page"), Plus(Sp),
             Plus(Dig), Star(Dot), Lit("of"), Plus(Sp), Plus(Dig), Star(Dot), Eol>>),
       \* ^.*Page\s+\d+\s+of\s+\d+.*\d{4}$
       Cat(<<Star(Dot), Lit("page"), Plus(Sp), Plus(Dig), Plus(Sp), Lit("of"), Plus(Sp),
             Plus(Dig), Star(Dot), Dig, Dig, Dig, Dig, Eol>>) >>

\* the disjunction assigned to basic_noise
basic_noise(text) ==
    LET tl == lower(text)
    IN  \/ re_match(Cat(<<Plus(Dig), Lit("."), Star(Sp),
                Words(<<"name", "designation", "date", "salary", "grade", "pay", "scale",
                        "station", "whether", "home", "amount", "details", "place">>)>>), tl)
        \/ re_match(Cat(<<Words(<<"name", "designation", "date", "salary", "grade", "pay",
                                  "scale", "station">>),
                          Opt(Cat(<<Plus(Sp), Lit("of"), Star(Dot)>>)), Opt(Lit(":")),
                          Star(Sp), Eol>>), tl)
        \/ re_match(Cat(<<Lit("date"), Plus(Sp), Lit("of"), Plus(Sp),
                          Words(<<"entering", "joining", "birth", "appointment">>)>>), tl)
        \/ re_match(Cat(<<Lit("signature"), Plus(Sp), Lit("of"), Plus(Sp)>>), tl)
        \/ re_match(Cat(<<Lit("("), Cls(LowerSet), Lit(")"), Plus(Sp), Lit("block"), Plus(Sp),
                          Lit("for"), Plus(Sp), Lit("which")>>), tl)
        \/ re_match(Cat(<<Lit("block"), Plus(Sp), Lit("for"), Plus(Sp), Lit("which")>>), tl)
        \/ re_match(Cat(<<Lit("whether"), Plus(Sp)>>), tl)
        \/ re_match(Cat(<<Lit("("), Cls(LowerSet), Lit(")"), Plus(Sp), Lit("if"), Plus(Sp)>>), tl)
        \/ re_match(Cat(<<Lit("single"), Plus(Sp), Words(<<"rail", "bus">>), Plus(Sp),
                          Lit("fare")>>), tl)
        \/ re_match(Cat(<<Lit("headquarters"), Plus(Sp), Lit("to"), Plus(Sp)>>), tl)
        \/ endswith(tl, " route.")
        \/ contains(tl, "entitled to ltc")
        \/ contains(tl, "ltc is to be availed")
        \/ contains(tl, "place to be visited")
        \/ tl \in {"s.no", "serial number", "amount", "details", "remarks", "signature",
                   "name", "relationship", "date", "designation", "salary", "grade", "pay",
                   "service"}
        \/ tl = "copyright"
        \/ startswith(tl, "copyright ©")
        \* table-of-contents entries: .*\s+\d+\s*$
        \/ /\ re_match(Cat(<<Star(Dot), Plus(Sp), Plus(Dig), Star(Sp), Eol>>), text)
           /\ Len(text) > 15
           /\ ~startswith(tl, "table")
        \* text.count('.') > len(text) * 0.15
        \/ count(text, ".") * 100 > Len(text) * 15
        \/ startswith(text, "©")
        \/ startswith(tl, "copyright")
        \* ^\d+$
        \/ re_match(Cat(<<Plus(Dig), Eol>>), strip(text))
        \/ re_search(Cat(<<WordB, Lit("page"), Star(Sp), Plus(Dig)>>), tl)
        \/ (startswith(tl, "version") /\ word_count(text) <= 3)
        \/ startswith(tl, "http")
        \/ (startswith(tl, "www.") /\ Len(text) > 20)
        \/ (contains(tl, "page ") /\ contains(tl, "of "))
        \/ endswith(tl, " of ")
        \/ startswith(tl, "page ")

\* a variant that knows a URL by its scheme only
is_http_url(text) == startswith(lower(text), "http")

\* URLs and websites
is_url(text) ==
    LET tl == lower(text)
    IN  \/ startswith(tl, "www.") \/ startswith(tl, "http")
        \/ contains(tl, ".com") \/ contains(tl, ".org") \/ contains(tl, ".net")

is_noise_with_confidence(text, font_size, font_stats, noise_patterns) ==
    LET text_stripped == strip(text)
        tl == lower(text)
        special_chars == count_in(text_stripped, SpecialChars)
        letters == count_in(text_stripped, Letters)
        unique_chars == CharsOf(text_stripped) \ {" "}
        numbered == re_match(re_numbered_item, text)
        chapter == re_match(re_chapter, tl)
    IN  IF one_of(text_stripped, noise_patterns) THEN TRUE
        ELSE IF text_stripped \in {"WWW.TOPJUMP.COM", "ADDRESS:"} THEN FALSE
        \* special_ratio = special / letters > 0.5
        ELSE IF special_chars > 0 /\ letters > 0 /\ 2 * special_chars > letters THEN TRUE
        ELSE IF /\ Len(text_stripped) > 5
                /\ Cardinality(unique_chars) <= 2
                /\ unique_chars \cap CharsOf("-_=+*#") # {}
             THEN TRUE
        ELSE IF one_of(text_stripped, form_field_labels) THEN FALSE
        ELSE IF \E n \in 1..Len(document_metadata_patterns) :
                    re_match(document_metadata_patterns[n], tl)
             THEN TRUE
        ELSE IF is_url(text) THEN TRUE
        \* ^rsvp:\s*[-_]{3,}
        ELSE IF \/ re_match(Cat(<<Lit("rsvp:"), Star(Sp), Cls({"-", "_"}), Cls({"-", "_"}),
                                  Cls({"-", "_"})>>), tl)
                \/ contains(tl, "phone:") \/ contains(tl, "email:")
             THEN TRUE
        ELSE IF \/ re_match(Cat(<<Plus(Dig), Lit("."), Plus(Sp),
                                  Words(<<"name", "designation", "date", "salary", "pay",
                                          "grade", "age", "relationship">>)>>), tl)
                \/ endswith(tl, "rs.")
                \/ re_match(Cat(<<Lit("s.no"), Plus(Sp), Lit("name"), Plus(Sp), Lit("age")>>), tl)
             THEN TRUE
        ELSE IF /\ Len(text) > 120 /\ ~numbered /\ ~chapter
                /\ ~any_in(tl, <<"professional", "testing", "experience", "methods",
                                 "techniques">>)
             THEN TRUE
        ELSE IF Len(text) > 100 /\ word_count(text) > 15 /\ ~numbered /\ ~chapter THEN TRUE
        ELSE IF basic_noise(text) THEN TRUE
        ELSE IF /\ Len(text) > 80 /\ ~numbered /\ ~chapter
                /\ ~any_in(tl, <<"introduction", "overview", "summary", "conclusion",
                                 "principles", "methods", "techniques">>)
             THEN TRUE
        ELSE IF Len(text) > 50 /\ any_in(tl, noise_patterns) THEN TRUE
        ELSE IF /\ endswith(tl, ":") /\ word_count(text) <= 2
                /\ any_in(tl, <<"contact", "email", "phone">>)
             THEN TRUE
        ELSE IF /\ word_count(text) = 1 /\ Len(text) < 10
                /\ any_in(tl, <<"parkway", "avenue", "street", "road", "suite", "floor">>)
             THEN TRUE
        \* ^(january|...|december)\s+\d{1,2},?\s+\d{4}$
        ELSE IF re_match(Cat(<<Words(<<"january", "february", "march", "april", "may", "june",
                                       "july", "august", "september", "october", "november",
                                       "december">>),
                               Plus(Sp), Dig, Opt(Dig), Opt(Lit(",")), Plus(Sp),
                               Dig, Dig, Dig, Dig, Eol>>), tl)
             THEN TRUE
        ELSE IF /\ \/ count(text, "-") > 15
                   \/ count(text, "_") > 5
                   \/ (Cardinality(CharsOf(text) \ {" ", "-"}) <= 2 /\ Len(text) > 8)
                /\ ~(startswith(tl, "rsvp") /\ (contains(text, ":") \/ startswith(tl, "rsvp:")))
             THEN TRUE
        ELSE FALSE

\* ------------------------------------------------------------------------
\* Confidence Scorer (analysis.py, calculate_heading_confidence)
\* A confidence is counted in thousandths; a level is "H1", "H2" or "H3".
\* A bbox is <<x0, y0, x1, y1>>: the source's bbox[1] is bbox[2] here.
\* ------------------------------------------------------------------------
\* a variant that reads the italic bit, font_flags & 2, for the bold one
has_italic_flag(font_flags) == (font_flags \div 2) % 2 = 1

\* font_flags & 16
has_bold_flag(font_flags) == (font_flags \div 16) % 2 = 1

bold_patterns == <<"bold", "black", "heavy", "demi", "semibold", "extrabold", "boldmt">>

high_value_words ==
    <<"introduction", "conclusion", "abstract", "summary", "overview", "background",
      "options", "pathway", "requirements", "prerequisites">>
medium_value_words ==
    <<"methodology", "results", "discussion", "references", "acknowledgements",
      "table of contents", "revision history", "program", "curriculum", "schedule">>
section_words == <<"appendix", "definitions", "scope", "requirements", "evaluation", "approach">>

\* (pattern, score, level), searched in text_lower
form_field_patterns ==
    << [re |-> Cat(<<WordB, Words(<<"name", "designation", "date", "service", "account",
                                    "emoluments", "salary", "pay", "grade", "department">>),
                     WordB>>),
        score |-> 350, level |-> "H3"],
       [re |-> Cat(<<WordB, Words(<<"present", "current", "basic", "leave", "advance", "grant",
                                    "application">>), WordB>>),
        score |-> 250, level |-> "H3"],
       \* ^[A-Z][a-z]+\s+(of|being|drawn|number|account)
       [re |-> Cat(<<Bol, Cls(UpperSet), Plus(Cls(LowerSet)), Plus(Sp),
                     Words(<<"of", "being", "drawn", "number", "account">>)>>),
        score |-> 300, level |-> "H3"],
       \* ^[A-Z][a-zA-Z\s]+(Government|Service|Department)
       [re |-> Cat(<<Bol, Cls(UpperSet), Plus(Cls(Letters \cup Whitespace)),
                     Words(<<"Government", "Service", "Department">>)>>),
        score |-> 300, level |-> "H3"],
       \* ^[A-Z][a-z]+(\s+[A-Z][a-z]+){2,}$
       [re |-> Cat(<<Bol, Cls(UpperSet), Plus(Cls(LowerSet)),
                     Cat(<<Plus(Sp), Cls(UpperSet), Plus(Cls(LowerSet))>>),
                     Plus(Cat(<<Plus(Sp), Cls(UpperSet), Plus(Cls(LowerSet))>>)), Eol>>),
        score |-> 200, level |-> "H3"] >>

\* (pattern, score, level), matched at the start of text
numbered_patterns ==
    << [re |-> Cat(<<Plus(Cat(<<Plus(Dig), Lit(".")>>)), Plus(Sp), Cls(UpperSet)>>),
        score |-> 600, level |-> "H1"],
       [re |-> Cat(<<Plus(Cat(<<Plus(Dig), Lit("."), Plus(Dig)>>)), Plus(Sp), Cls(UpperSet)>>),
        score |-> 500, level |-> "H2"],
       [re |-> Cat(<<Plus(Cat(<<Plus(Dig), Lit("."), Plus(Dig), Lit("."), Plus(Dig)>>)),
                     Plus(Sp), Cls(UpperSet)>>),
        score |-> 400, level |-> "H3"],
       [re |-> Cat(<<Plus(Cls(UpperSet)), Lit("."), Plus(Sp), Cls(UpperSet)>>),
        score |-> 350, level |-> "H2"],
       [re |-> Cat(<<Lit("("), Cls(LowerSet), Lit(")"), Plus(Sp), Cls(UpperSet)>>),
        score |-> 300, level |-> "H3"] >>

\* (pattern, score, level), matched at the start of text with IGNORECASE
chapter_patterns ==
    << [re |-> re_chapter, score |-> 700, level |-> "H1"],
       [re |-> Cat(<<Plus(Dig), Lit("."), Plus(Sp), Lit("professional"), Opt(Lit("s")),
                     Plus(Sp), Lit("who")>>),
        score |-> 600, level |-> "H3"],
       [re |-> Cat(<<Plus(Dig), Lit("."), Plus(Sp), Lit("junior"), Plus(Sp),
                     Lit("professional")>>),
        score |-> 600, level |-> "H3"],
       \* ^\d+\.\s+[A-Z][a-z]+.*?(experience|testing|profession)
       [re |-> Cat(<<Plus(Dig), Lit("."), Plus(Sp), Cls(LowerSet), Plus(Cls(LowerSet)),
                     Star(Dot), Words(<<"experience", "testing", "profession">>)>>),
        score |-> 500, level |-> "H3"] >>

\* the index of the first pattern of the list that holds of s, 0 when none does
first_search(patterns, s) ==
    LET hits == {n \in 1..Len(patterns) : re_search(patterns[n].re, s)}
    IN  IF hits = {} THEN 0 ELSE CHOOSE n \in hits : \A m \in hits : n <= m

first_match(patterns, s) ==
    LET hits == {n \in 1..Len(patterns) : re_match(patterns[n].re, s)}
    IN  IF hits = {} THEN 0 ELSE CHOOSE n \in hits : \A m \in hits : n <= m

intro_phrases == <<"this section", "the following", "as described", "section covers">>

RECURSIVE context_score(_, _)
context_score(context_blocks, font_stats) ==
    IF Len(context_blocks) = 0 THEN 0
    ELSE LET block == Head(context_blocks)
         IN  (IF size_over(block.font_size, font_stats) < font_stats.median THEN 50 ELSE 0)
             + (IF any_in(lower(block.text), intro_phrases) THEN 100 ELSE 0)
             + context_score(Tail(context_blocks), font_stats)

analyze_context(text, context_blocks, font_stats) ==
    Min2(context_score(SubSeq(context_blocks, 1, Min2(3, Len(context_blocks))), font_stats), 200)

\* A score is [confidence, level]; every step of the scorer takes the score
\* so far and returns the next one.

\* size_ratio > tenths / 10, size_ratio = font_size / median (1 when the
\* median is not positive)
ratio_over(size, tenths, font_stats) ==
    IF font_stats.median > 0 THEN size * 10 > tenths * font_stats.median
    ELSE 10 > tenths

\* the font size against the thresholds
size_score(size, font_stats) ==
    IF size >= font_stats.h1 THEN [confidence |-> 400, level |-> "H1"]
    ELSE IF size >= font_stats.h2 THEN [confidence |-> 300, level |-> "H2"]
    ELSE IF size >= font_stats.h3 THEN [confidence |-> 250, level |-> "H3"]
    ELSE [confidence |-> -100, level |-> "H3"]

\* a large size without bold counts less
plain_size_step(s, large_plain) ==
    IF large_plain THEN [s EXCEPT !.confidence = (@ * 7) \div 10] ELSE s

is_bold_font(font, font_flags) == has_bold_flag(font_flags) \/ any_in(lower(font), bold_patterns)

\* a bold step that takes 0.6 for enough to reach H1
bold_step_from_six_tenths(s, is_bold) ==
    IF ~is_bold THEN s
    ELSE [confidence |-> s.confidence + 300,
          level |-> IF s.level = "H3" /\ s.confidence + 300 > 400 THEN "H2"
                    ELSE IF s.level = "H2" /\ s.confidence + 300 >= 600 THEN "H1"
                    ELSE s.level]

bold_step(s, is_bold) ==
    IF ~is_bold THEN s
    ELSE [confidence |-> s.confidence + 300,
          level |-> IF s.level = "H3" /\ s.confidence + 300 > 400 THEN "H2"
                    ELSE IF s.level = "H2" /\ s.confidence + 300 > 600 THEN "H1"
                    ELSE s.level]

\* 1 high-value, 2 medium-value, 3 section, 4 structural word, 0 none
vocabulary_class(text_lower, structural_words) ==
    IF any_in(text_lower, high_value_words) THEN 1
    ELSE IF any_in(text_lower, medium_value_words) THEN 2
    ELSE IF any_in(text_lower, section_words) THEN 3
    ELSE IF any_in(text_lower, structural_words) THEN 4 ELSE 0

\* form is the index of the first form-field pattern found, 0 when none is
structural_step(s, form, vocab) ==
    IF form > 0
    THEN [confidence |-> s.confidence + form_field_patterns[form].score,
          level |-> form_field_patterns[form].level]
    ELSE [confidence |-> s.confidence
                         + (CASE vocab = 1 -> 400 [] vocab = 2 -> 300 [] vocab = 3 -> 200
                              [] vocab = 4 -> 150 [] vocab = 0 -> 0),
          level |-> IF vocab = 1 /\ s.level = "H3" THEN "H1"
                    ELSE IF vocab = 2 /\ s.level = "H3" THEN "H2" ELSE s.level]

\* non_ascii_chars / len(text) > 0.3, and > 0.5 for a text under 8 characters
script_step(s, non_ascii_chars, length) ==
    [s EXCEPT !.confidence =
        @ + (IF non_ascii_chars > 0 /\ 10 * non_ascii_chars > 3 * length THEN 150 ELSE 0)
          + (IF length < 8 /\ 2 * non_ascii_chars > length THEN 100 ELSE 0)]

\* chapter and numbered are the indexes of the first pattern matched, 0 when
\* none is; the numbered patterns are tried only when no chapter pattern matches
numbering_step(s, chapter, numbered) ==
    IF chapter > 0
    THEN [confidence |-> s.confidence + chapter_patterns[chapter].score,
          level |-> chapter_patterns[chapter].level]
    ELSE IF numbered > 0
    THEN [confidence |-> s.confidence + numbered_patterns[numbered].score,
          level |-> numbered_patterns[numbered].level]
    ELSE s

position_step(s, bbox) ==
    IF Len(bbox) > 0 /\ bbox[2] < 100 THEN [s EXCEPT !.confidence = @ + 100] ELSE s

length_step(s, words, length) ==
    [s EXCEPT !.confidence =
        IF 2 <= words /\ words <= 8 THEN @ + 100
        ELSE IF words = 1 /\ length > 3 THEN @ + 50
        ELSE IF words > 15 THEN @ - 300 ELSE @]

case_step(s, text, words) ==
    [s EXCEPT !.confidence =
        IF istitle(text) THEN @ + 100
        ELSE IF isupper(text) /\ words <= 5 THEN @ + 150 ELSE @]

colon_step(s, text) ==
    IF endswith(text, ":")
    THEN [confidence |-> s.confidence + 100,
          level |-> IF s.level = "H1" THEN "H2" ELSE s.level]
    ELSE s

context_step(s, text, context_blocks, font_stats) ==
    IF Len(context_blocks) > 0
    THEN [s EXCEPT !.confidence = @ + analyze_context(text, context_blocks, font_stats)]
    ELSE s

\* a return without the minimum
cap_nothing(s) == s

\* min(confidence, 1.0)
cap_at_one(s) == [s EXCEPT !.confidence = Min2(@, 1000)]

\* the score of the font: size, then bold
font_score(size, is_bold, font_stats) ==
    bold_step(plain_size_step(size_score(size, font_stats),
                              ratio_over(size, 15, font_stats) /\ ~is_bold),
              is_bold)

\* the steps that read the words of the text
content_steps(s, text, text_lower, structural_words) ==
    numbering_step(
        script_step(
            structural_step(s, first_search(form_field_patterns, text_lower),
                            vocabulary_class(text_lower, structural_words)),
            Len(text) - count_in(text, AsciiSet), Len(text)),
        first_match(chapter_patterns, text_lower),
        first_match(numbered_patterns, text))

\* the steps that read the place and the shape of the text
shape_steps(s, text, bbox, context_blocks, font_stats) ==
    context_step(
        colon_step(
            case_step(length_step(position_step(s, bbox), word_count(text), Len(text)),
                      text, word_count(text)),
            text),
        text, context_blocks, font_stats)

\* a scorer without the early return for large text that is not bold
confidence_of_steps(text, size, is_bold, bbox, font_stats, context_blocks, structural_words) ==
    cap_at_one(shape_steps(content_steps(font_score(size, is_bold, font_stats),
                                         text, lower(text), structural_words),
                           text, bbox, context_blocks, font_stats))

\* size is the font size over the denominator of the statistics
confidence_of_size(text, size, is_bold, bbox, font_stats, context_blocks, structural_words) ==
    IF ratio_over(size, 18, font_stats) /\ ~is_bold
    THEN [confidence |-> Max2(0, (size_score(size, font_stats).confidence * 3) \div 10),
          level |-> "H3"]
    ELSE cap_at_one(shape_steps(content_steps(font_score(size, is_bold, font_stats),
                                          text, lower(text), structural_words),
                            text, bbox, context_blocks, font_stats))

calculate_heading_confidence(text, font_size, font, bbox, font_stats, font_flags, context_blocks, structural_words) ==
    confidence_of_size(text, size_over(font_size, font_stats), is_bold_font(font, font_flags),
                       bbox, font_stats, context_blocks, structural_words)

\* ------------------------------------------------------------------------
\* Text normalisation (text_extraction.py) and the extractor's configuration
\* ------------------------------------------------------------------------
\* re.sub(filter, '', text, IGNORECASE) for a filter that is a literal string
RECURSIVE remove_ci(_, _)
remove_ci(s, p) ==
    IF Len(s) = 0 \/ Len(p) = 0 THEN s
    ELSE IF HasAt(lower(s), 1, lower(p)) THEN remove_ci(SubSeq(s, Len(p) + 1, Len(s)), p)
    ELSE Head(s) \o remove_ci(Tail(s), p)

RECURSIVE apply_filters(_, _)
apply_filters(s, custom_filters) ==
    IF Len(custom_filters) = 0 THEN s
    ELSE apply_filters(remove_ci(s, Head(custom_filters)), Tail(custom_filters))

\* unicodedata.normalize('NFKC', .) leaves the characters of the model unchanged
normalize_text(text, custom_filters) == apply_filters(collapse_ws(strip(text)), custom_filters)

\* PDFOutlineExtractor.__init__ with its default arguments; the middle dot of the
\* tenth pattern stands for the bullet character of the source
default_noise_patterns ==
    <<"qualifications board", "testing board", "international board", "copyright notice",
      "document may be copied", "source is acknowledged", ". *", ".*", "..", "· *", "- *",
      "* *">>

default_structural_words ==
    <<"introduction", "background", "summary", "conclusion", "overview", "methodology",
      "results", "discussion", "references", "appendix", "timeline", "milestones", "approach",
      "evaluation", "requirements", "preamble", "membership", "meetings", "term", "revision",
      "history", "acknowledgements", "contents", "abstract", "objectives", "scope",
      "definitions", "recommendations">>

default_config ==
    [min_heading_length |-> 3, max_heading_length |-> 25, enable_cache |-> TRUE,
     custom_filters |-> <<>>, noise_patterns |-> default_noise_patterns,
     structural_words |-> default_structural_words]

\* ------------------------------------------------------------------------
\* Block-level detection (extractor.py)
\* ------------------------------------------------------------------------
\* the start of the leftmost match of re in s, 0 when there is none
search_start(re, s) ==
    LET starts == {i \in 1..(Len(s) + 1) : Ends(re, s, {i}) # {}}
    IN  IF starts = {} THEN 0 ELSE CHOOSE i \in starts : \A j \in starts : i <= j

\* every pattern ends in $, so a match runs from its start to the end of the text
heading_tail_patterns ==
    << \* HOPE\s+[A-Za-z\s]+?HERE[!\s]*$
       Cat(<<Lit("HOPE"), Plus(Sp), Plus(Cls(Letters \cup Whitespace)), Lit("HERE"),
             Star(Cls({"!"} \cup Whitespace)), Eol>>),
       \* HOPE[\s\w]+THERE[!\s]*$
       Cat(<<Lit("HOPE"), Plus(Cls(WordChars \cup Whitespace)), Lit("THERE"),
             Star(Cls({"!"} \cup Whitespace)), Eol>>),
       \* [A-Z][A-Z\s]+[A-Z][!\.]*\s*$
       Cat(<<Cls(UpperSet), Plus(Cls(UpperSet \cup Whitespace)), Cls(UpperSet),
             Star(Cls({"!", "."})), Star(Sp), Eol>>),
       \* [A-Z]{3,}[A-Z\s!\.]*[A-Z][!\.\s]*$
       Cat(<<Cls(UpperSet), Cls(UpperSet), Cls(UpperSet),
             Star(Cls(UpperSet \cup Whitespace \cup {"!", "."})), Cls(UpperSet),
             Star(Cls({"!", "."} \cup Whitespace)), Eol>>) >>

\* the heading taken from the end of a longer text, "" standing for None
extract_heading_from_text(text) ==
    LET t == strip(text)
        potential(n) ==
            LET start == search_start(heading_tail_patterns[n], t)
            IN  IF start = 0 THEN "" ELSE strip(SubSeq(t, start, Len(t)))
        ok == {n \in 1..Len(heading_tail_patterns) :
                  /\ search_start(heading_tail_patterns[n], t) > 0
                  /\ 5 <= Len(potential(n)) /\ Len(potential(n)) <= 50}
    IN  IF ok = {} THEN "" ELSE potential(CHOOSE n \in ok : \A m \in ok : n <= m)

\* the acceptance threshold chosen by the number of blocks handed to is_heading
base_threshold(context_blocks) ==
    LET total_blocks == IF Len(context_blocks) > 0 THEN Len(context_blocks) ELSE 100
    IN  IF total_blocks > 100 THEN 500 ELSE IF total_blocks > 50 THEN 400 ELSE 300

flyer_marker(tl) ==
    \/ startswith(tl, "www.") \/ endswith(tl, ".com")
    \/ startswith(tl, "address:") \/ startswith(tl, "rsvp:")
    \/ contains(tl, "hope to see")
    \/ (contains(tl, "required") /\ (contains(tl, "shoes") \/ contains(tl, "climbing")))

canonical_section_titles ==
    <<"introduction", "conclusion", "summary", "overview", "background", "acknowledgements",
      "table of contents", "revision history", "references", "methodology", "results",
      "discussion", "appendix", "goals", "mission statement">>

\* the amount by which the structural shape of the text lowers the threshold
structural_boost(text) ==
    LET tl == lower(text)
    IN  IF \/ re_search(form_field_patterns[1].re, tl) \/ re_search(form_field_patterns[2].re, tl)
           \/ re_search(form_field_patterns[3].re, tl) \/ re_search(form_field_patterns[4].re, tl)
        THEN 400
        ELSE IF \/ re_match(numbered_patterns[1].re, text) \/ re_match(numbered_patterns[2].re, text)
        THEN 300
        ELSE IF one_of(strip(tl), canonical_section_titles) THEN 300
        ELSE IF \/ startswith(tl, "introduction to") \/ startswith(tl, "overview of")
                \/ startswith(tl, "mission statement")
                \/ endswith(tl, " pathway") \/ endswith(tl, " options")
                \/ (endswith(text, ":") /\ word_count(text) <= 3)
        THEN 250
        ELSE IF \/ contains(tl, "pathway") \/ contains(tl, "regular pathway")
                \/ contains(tl, "distinction pathway") \/ tl = "pathway options"
        THEN 300
        ELSE IF flyer_marker(tl) THEN 300
        ELSE 0

no_heading == [is_heading |-> FALSE, level |-> "", text |-> ""]

\* the greatest number of words of a heading with this lower-cased text
max_words_of(cfg, text, tl) ==
    IF \/ re_match(Cat(<<Plus(Dig), Lit("."), Plus(Sp), Lit("professional")>>), tl)
       \/ re_search(Cat(<<Lit("professional"), Star(Dot), Lit("testing"), Star(Dot),
                          Lit("experience")>>), tl)
       \/ re_search(Cat(<<Plus(Dig), Lit("."), Plus(Sp), Star(Dot), Plus(Dig), Lit("."),
                          Plus(Sp), Star(Dot), Plus(Dig), Lit(".")>>), text)
    THEN 150
    ELSE IF re_match(re_chapter, tl) THEN 50
    ELSE IF contains(tl, "hope") /\ (contains(tl, "see") \/ contains(tl, "there")) THEN 50
    ELSE cfg.max_heading_length

\* a text that is not noise: scored is its score, threshold what it has to reach
accept_scored(text, words, scored, threshold) ==
    \* main numbered sections with high confidence always pass
    IF /\ scored.confidence >= 900
       /\ re_match(Cat(<<Plus(Dig), Lit("."), Plus(Sp), Cls(UpperSet)>>), text)
       /\ words >= 3
    THEN [is_heading |-> TRUE, level |-> scored.level, text |-> text]
    ELSE IF scored.confidence >= threshold
    THEN [is_heading |-> TRUE, level |-> scored.level, text |-> text]
    ELSE no_heading

\* a noise text: the heading extracted from its end, when it is one
accept_extracted(extracted_heading, is_noise, scored, threshold) ==
    IF Len(extracted_heading) > 0 /\ ~is_noise /\ scored.confidence >= threshold
    THEN [is_heading |-> TRUE, level |-> scored.level, text |-> extracted_heading]
    ELSE no_heading

rescue_heading(cfg, extracted_heading, font_size, font, bbox, font_stats, font_flags, context_blocks) ==
    accept_extracted(extracted_heading,
        is_noise_with_confidence(extracted_heading, font_size, font_stats, cfg.noise_patterns),
        calculate_heading_confidence(extracted_heading, font_size, font, bbox, font_stats,
                                     font_flags, context_blocks, cfg.structural_words),
        base_threshold(context_blocks)
            - (IF flyer_marker(lower(extracted_heading)) THEN 300 ELSE 0))

\* text is the normalised text of the block, text0 the text as given
heading_of_text(cfg, text, text0, font_size, font, bbox, font_stats, font_flags, context_blocks) ==
    IF Len(text) = 0 \/ Len(text) < cfg.min_heading_length THEN no_heading
    ELSE IF word_count(text) > max_words_of(cfg, text, lower(text)) \/ word_count(text) < 1
    THEN no_heading
    ELSE IF is_noise_with_confidence(text, font_size, font_stats, cfg.noise_patterns)
    THEN rescue_heading(cfg, extract_heading_from_text(text0), font_size, font, bbox,
                        font_stats, font_flags, context_blocks)
    ELSE accept_scored(text, word_count(text),
             calculate_heading_confidence(text, font_size, font, bbox, font_stats,
                                          font_flags, context_blocks, cfg.structural_words),
             base_threshold(context_blocks) - structural_boost(text))

is_heading(cfg, text0, font_size, font, bbox, font_stats, page_width, font_flags, context_blocks) ==
    heading_of_text(cfg, normalize_text(text0, cfg.custom_filters), text0, font_size, font,
                    bbox, font_stats, font_flags, context_blocks)

\* ------------------------------------------------------------------------
\* Multi-pass detection (extractor.py, _multi_pass_heading_detection)
\* A block is [text, font_size, font, font_flags, page, bbox].  An outline
\* entry is [text, level, page, font_size, font, confidence, src]: src is a
\* ghost field, the index of the block the entry was made from.
\* ------------------------------------------------------------------------
level_name(n) == "H" \o Ch(DigitChars, n + 1)

\* int(heading["level"][1:])
level_number(level) == CHOOSE n \in 0..9 : Ch(DigitChars, n + 1) = SubSeq(level, 2, Len(level))

\* sum(len(block['text']) for block in blocks)
total_chars_of(blocks) == SumSeq([i \in 1..Len(blocks) |-> Len(blocks[i].text)])

\* len(set(block['font'] for block in blocks))
unique_fonts_of(blocks) == Cardinality({blocks[i].font : i \in 1..Len(blocks)})

heading_key(text, page, level) == <<lower(text), page, level>>

\* acc is [outline, seen_headings]; the entry joins the outline when it is
\* accepted and its key is new
add_heading(acc, accepted, entry) ==
    IF accepted /\ heading_key(entry.text, entry.page, entry.level) \notin acc.seen_headings
    THEN [outline |-> Append(acc.outline, entry),
          seen_headings |-> acc.seen_headings
                            \cup {heading_key(entry.text, entry.page, entry.level)}]
    ELSE acc

\* the candidate record of Pass 1: r is what is_heading returned for the block
pass1_entry(block, r, i) ==
    [text |-> IF r.text # "" THEN r.text ELSE block.text, level |-> r.level,
     page |-> block.page, font_size |-> block.font_size, font |-> block.font,
     confidence |-> 800, src |-> i]

pass1_block(acc, block, r, i) == add_heading(acc, r.is_heading, pass1_entry(block, r, i))

\* blocks[max(0, i-2):min(len(blocks), i+3)], the blocks handed to is_heading
\* with block i
context_of(blocks, i) == SubSeq(blocks, Max2(1, i - 2), Min2(Len(blocks), i + 2))

\* what Pass 1 does with block i
pass1_step(cfg, blocks, font_stats, width, i, acc) ==
    pass1_block(acc, blocks[i],
                is_heading(cfg, blocks[i].text, blocks[i].font_size, blocks[i].font,
                           blocks[i].bbox, font_stats, width, blocks[i].font_flags,
                           context_of(blocks, i)),
                i)

\* Pass 1 over the blocks lo..hi in their order, by halves: the candidates of
\* the first half are complete before the second half is looked at
RECURSIVE pass1_range(_, _, _, _, _, _, _)
pass1_range(cfg, blocks, font_stats, width, lo, hi, acc) ==
    IF lo > hi THEN acc
    ELSE IF lo = hi THEN pass1_step(cfg, blocks, font_stats, width, lo, acc)
    ELSE LET half == pass1_range(cfg, blocks, font_stats, width, lo, (lo + hi) \div 2, acc)
         IN  IF Len(half.outline) >= Len(acc.outline)
             THEN pass1_range(cfg, blocks, font_stats, width, (lo + hi) \div 2 + 1, hi, half)
             ELSE acc

\* Pass 1, from block i on
pass1(cfg, blocks, font_stats, width, i, acc) ==
    pass1_range(cfg, blocks, font_stats, width, i, Len(blocks), acc)

\* 3 if total_chars > 5000 else 2 if total_chars > 1000 else 1
min_headings_threshold(total_chars) ==
    IF total_chars > 5000 THEN 3 ELSE IF total_chars > 1000 THEN 2 ELSE 1

\* the adaptive threshold of Pass 2
pass2_threshold(total_chars, unique_fonts) ==
    IF total_chars < 1000 THEN 250 ELSE IF unique_fonts <= 3 THEN 300 ELSE 350

\* whether the outline already holds the text of the block
already_outlined(outline, block) ==
    \E n \in 1..Len(outline) : lower(outline[n].text) = lower(block.text)

\* the candidate record of Pass 2: c is the score of the block
pass2_entry(block, c, i) ==
    [text |-> block.text, level |-> c.level, page |-> block.page,
     font_size |-> block.font_size, font |-> block.font,
     confidence |-> c.confidence, src |-> i]

pass2_block(cfg, acc, block, font_stats, threshold, c, i) ==
    IF already_outlined(acc.outline, block) THEN acc
    ELSE IF is_noise_with_confidence(block.text, block.font_size, font_stats,
                                     cfg.noise_patterns)
    THEN acc
    ELSE add_heading(acc, c.confidence >= threshold, pass2_entry(block, c, i))

\* what Pass 2 does with block i
pass2_step(cfg, blocks, font_stats, threshold, i, acc) ==
    pass2_block(cfg, acc, blocks[i], font_stats, threshold,
                calculate_heading_confidence(blocks[i].text, blocks[i].font_size,
                    blocks[i].font, blocks[i].bbox, font_stats, blocks[i].font_flags,
                    <<>>, cfg.structural_words),
                i)

\* Pass 2 over the blocks lo..hi in their order, by halves
RECURSIVE pass2_range(_, _, _, _, _, _, _)
pass2_range(cfg, blocks, font_stats, threshold, lo, hi, acc) ==
    IF lo > hi THEN acc
    ELSE IF lo = hi THEN pass2_step(cfg, blocks, font_stats, threshold, lo, acc)
    ELSE LET half == pass2_range(cfg, blocks, font_stats, threshold, lo, (lo + hi) \div 2, acc)
         IN  IF Len(half.outline) >= Len(acc.outline)
             THEN pass2_range(cfg, blocks, font_stats, threshold, (lo + hi) \div 2 + 1, hi, half)
             ELSE acc

\* Pass 2, from block i on
pass2(cfg, blocks, font_stats, threshold, i, acc) ==
    pass2_range(cfg, blocks, font_stats, threshold, i, Len(blocks), acc)

\* a variant that runs Pass 2 whatever Pass 1 found
always_second_pass(cfg, blocks, font_stats, first) ==
    pass2(cfg, blocks, font_stats,
          pass2_threshold(total_chars_of(blocks), unique_fonts_of(blocks)), 1, first).outline

\* Pass 2 runs when Pass 1 found fewer headings than the document calls for
second_pass(cfg, blocks, font_stats, first) ==
    IF Len(first.outline) < min_headings_threshold(total_chars_of(blocks))
    THEN pass2(cfg, blocks, font_stats,
               pass2_threshold(total_chars_of(blocks), unique_fonts_of(blocks)), 1,
               first).outline
    ELSE first.outline

multi_pass_heading_detection(cfg, blocks, font_stats, width) ==
    second_pass(cfg, blocks, font_stats,
                pass1(cfg, blocks, font_stats, width, 1,
                      [outline |-> <<>>, seen_headings |-> {}]))

\* ------------------------------------------------------------------------
\* Hierarchy Validator and Deduplicator (extractor.py, _post_process_headings)
\* ------------------------------------------------------------------------
\* the key of outline.sort: (x["page"], x.get("bbox", [0, 0, 0, 0])[1])
position_key(h) == <<h.page, IF "bbox" \in DOMAIN h THEN h.bbox[2] ELSE 0>>

key_less(a, b) == a[1] < b[1] \/ (a[1] = b[1] /\ a[2] < b[2])

\* insert h behind every entry whose key is not greater: the sort is stable
RECURSIVE insert_by_position(_, _)
insert_by_position(q, h) ==
    IF Len(q) = 0 THEN <<h>>
    ELSE IF key_less(position_key(h), position_key(Head(q))) THEN <<h>> \o q
         ELSE <<Head(q)>> \o insert_by_position(Tail(q), h)

RECURSIVE sort_by_position(_)
sort_by_position(q) ==
    IF Len(q) = 0 THEN <<>>
    ELSE insert_by_position(sort_by_position(SubSeq(q, 1, Len(q) - 1)), q[Len(q)])

\* the entries that do not repeat the title
remove_title(outline, title) ==
    LET title_lower == lower(strip(title))
        keep(h) ==
            LET t == lower(strip(h.text))
            IN  /\ t # title_lower
                /\ ~(Len(strip(h.text)) > 10 /\ contains(title_lower, t))
                /\ ~(Len(title_lower) > 10 /\ contains(t, title_lower))
    IN  IF strip(title) # "" THEN SelectSeq(outline, keep) ELSE outline

\* a variant that clamps the first entry as well, as if an H0 came before it
RECURSIVE clamp_from(_, _)
clamp_from(outline, last_level) ==
    IF Len(outline) = 0 THEN <<>>
    ELSE LET heading == Head(outline)
             new_level == Min2(level_number(heading.level), last_level + 1)
         IN  <<[heading EXCEPT !.level = level_name(new_level)]>>
             \o clamp_from(Tail(outline), new_level)

RECURSIVE validate_from(_, _)
validate_from(outline, last_level) ==
    IF Len(outline) = 0 THEN <<>>
    ELSE LET heading == Head(outline)
             current_level == level_number(heading.level)
             new_level == IF current_level > last_level + 1 /\ last_level > 0
                          THEN Min2(current_level, last_level + 1)
                          ELSE current_level
         IN  <<[heading EXCEPT !.level = level_name(new_level)]>>
             \o validate_from(Tail(outline), new_level)

validate_hierarchy(outline) ==
    IF Len(outline) <= 1 THEN outline ELSE validate_from(outline, 0)

\* h.get("confidence", 0)
confidence_of(h) == IF "confidence" \in DOMAIN h THEN h.confidence ELSE 0

\* a variant that keeps the first entry of a group, whatever its confidence
first_of_group(headings) == headings[1]

\* max(headings, key=confidence): the first entry of the greatest confidence
first_max(headings) ==
    headings[CHOOSE i \in 1..Len(headings) :
        /\ \A j \in 1..Len(headings) : confidence_of(headings[j]) <= confidence_of(headings[i])
        /\ \A j \in 1..(i - 1) : confidence_of(headings[j]) < confidence_of(headings[i])]

\* a variant that skips the deduplication
keep_duplicates(outline) == outline

remove_duplicates(outline) ==
    LET \* the positions that open a group: the keys of text_groups, in insertion order
        opens(i) == \A j \in 1..(i - 1) : lower(outline[j].text) # lower(outline[i].text)
        firsts == SelectSeq([i \in 1..Len(outline) |-> i], opens)
        same_text(i) == LET g == outline[i]
                            same(h) == lower(h.text) = lower(g.text)
                        IN  SelectSeq(outline, same)
        deduplicated == [n \in 1..Len(firsts) |-> first_max(same_text(firsts[n]))]
    IN  IF Len(outline) = 0 THEN outline ELSE sort_by_position(deduplicated)

post_process_headings(outline, title, font_stats) ==
    IF Len(outline) = 0 THEN outline
    ELSE remove_duplicates(validate_hierarchy(sort_by_position(remove_title(outline, title))))

\* ------------------------------------------------------------------------
\* Title Selector and Document Profiler (extractor.py)
\* ------------------------------------------------------------------------
on_page(blocks, p) == LET here(b) == b.page = p IN SelectSeq(blocks, here)

title_indicators ==
    <<"rfp", "request", "proposal", "report", "manual", "guide", "policy", "procedure",
      "specification", "document">>

business_terms == <<"parkway", "avenue", "street", "road", "drive", "suite", "floor">>

legal_terms == <<"copyright", "document may be copied", "acknowledged", "proprietary">>

non_title_indicators == <<"shoes", "climbing", "required", "closed", "open", "hours">>

\* the filter of the title candidates
is_title_candidate(cfg, block) ==
    LET text == strip(block.text)
        tl == lower(text)
    IN  /\ Len(text) >= cfg.min_heading_length
        /\ word_count(text) <= 20
        /\ ~re_match(Cat(<<Plus(Dig), Eol>>), strip(text))
        /\ ~startswith(tl, "http")
        /\ ~startswith(tl, "www.")
        /\ ~endswith(tl, "address:")
        /\ ~startswith(tl, "rsvp:")
        /\ ~(count(text, "-") > 10)
        /\ tl \notin {"page", "chapter", "section"}

\* the score of a candidate, multiplied by the median of the statistics
title_score(block, font_stats) ==
    LET text == strip(block.text)
        tl == lower(text)
        points == (IF block.bbox[2] < 150 THEN 3 ELSE 0)
                + (IF contains(lower(block.font), "bold") THEN 2 ELSE 0)
                + (IF istitle(block.text) \/ isupper(block.text) THEN 1 ELSE 0)
                + (IF any_in(tl, title_indicators) THEN 5 ELSE 0)
                + (IF startswith(text, "RFP:") \/ contains(text, "Request for Proposal")
                   THEN 10 ELSE 0)
                - (IF \/ any_in(tl, business_terms) \/ any_in(tl, legal_terms)
                      \/ word_count(text) > 15
                   THEN 10 ELSE 0)
    IN  size_over(block.font_size, font_stats) + points * font_stats.median

\* the filter of the fallback candidates
is_fallback_candidate(block) ==
    LET text == strip(block.text)
        tl == lower(text)
    IN  /\ text # ""
        /\ word_count(text) <= 30
        /\ ~(count(text, "-") > 10)
        /\ ~startswith(tl, "rsvp:")
        /\ ~startswith(tl, "www.")
        /\ ~startswith(tl, "address:")
        /\ ~any_in(tl, <<"parkway", "avenue", "street", "suite", "forge", "tn ">>)

is_flyer_candidate(candidate) ==
    LET cl == lower(candidate)
    IN  \/ contains(cl, "topjump") \/ contains(cl, "party") \/ contains(cl, "climbing")
        \/ (contains(cl, "hope") /\ contains(cl, "see"))
        \/ contains(cl, "www.")

RECURSIVE join_lower(_)
join_lower(blocks) ==
    IF Len(blocks) = 0 THEN ""
    ELSE IF Len(blocks) = 1 THEN lower(blocks[1].text)
    ELSE lower(blocks[1].text) \o " " \o join_lower(Tail(blocks))

extract_title(cfg, blocks, font_stats) ==
    LET first_page_blocks == on_page(blocks, 0)
        cand(b) == is_title_candidate(cfg, b)
        candidates == SelectSeq(first_page_blocks, cand)
        \* max(candidates, key=score): the first candidate of the greatest score
        best == CHOOSE i \in 1..Len(candidates) :
                    /\ \A j \in 1..Len(candidates) :
                          title_score(candidates[j], font_stats)
                              <= title_score(candidates[i], font_stats)
                    /\ \A j \in 1..(i - 1) :
                          title_score(candidates[j], font_stats)
                              < title_score(candidates[i], font_stats)
        best_title == strip(candidates[best].text)
        fallback_candidates == SelectSeq(first_page_blocks, is_fallback_candidate)
        all_text == join_lower(first_page_blocks)
    IN  IF Len(first_page_blocks) = 0 THEN "Untitled"
        ELSE IF Len(candidates) > 0
        THEN IF any_in(lower(best_title), non_title_indicators) THEN ""
             ELSE IF strip(best_title) # "" THEN best_title ELSE ""
        ELSE IF Len(fallback_candidates) > 0
        THEN IF \E n \in 1..Len(fallback_candidates) :
                    is_flyer_candidate(strip(fallback_candidates[n].text))
             THEN "TopJump Party Invitation"
             ELSE IF \/ /\ contains(all_text, "topjump")
                        /\ (contains(all_text, "party") \/ contains(all_text, "climbing"))
                     \/ /\ contains(all_text, "hope") /\ contains(all_text, "see")
                        /\ contains(all_text, "there")
             THEN "TopJump Party Invitation"
             ELSE strip(fallback_candidates[1].text)
        ELSE ""

form_keywords == <<"application", "form", "advance", "grant", "ltc">>

form_fields == <<"name", "designation", "date", "salary", "grade", "pay", "station">>

form_patterns == <<"s.no", "serial number", "amount", "details", "remarks">>

\* sum(1 for w in words if w in text)
count_words_in(text, words) == Cardinality({n \in 1..Len(words) : contains(text, words[n])})

is_form_document(blocks, title) ==
    LET all_text == join_lower(blocks)
        field_count == count_words_in(all_text, form_fields)
        pattern_count == count_words_in(all_text, form_patterns)
    IN  /\ any_in(lower(title), form_keywords)
        /\ (field_count >= 4 \/ pattern_count >= 2)

\* a classification that asks for the form before the simple document
analyze_form_first(blocks, title) ==
    LET total_chars == total_chars_of(blocks)
        n == Len(blocks)
        font_sizes == sorted([i \in 1..n |-> blocks[i].font_size])
        profile(type, complexity, strategy) ==
            [total_blocks |-> n, total_chars |-> total_chars,
             unique_fonts |-> unique_fonts_of(blocks),
             font_size_range |-> IF n > 0 THEN font_sizes[n] - font_sizes[1] ELSE 0,
             type |-> type, complexity |-> complexity, recommended_strategy |-> strategy]
    IN  IF total_chars > 15000 \/ n > 100 THEN profile("complex", "high", "block_preferred")
        ELSE IF is_form_document(blocks, title) THEN profile("form", "low", "minimal")
        ELSE IF total_chars < 400 /\ n < 6 THEN profile("simple", "low", "span_preferred")
        ELSE IF n >= 6 /\ total_chars > 1000 THEN profile("standard", "medium", "block_preferred")
        ELSE IF n = 6 /\ total_chars < 500 THEN profile("flyer", "low", "block_preferred")
        ELSE profile("standard", "medium", "hybrid")

analyze_document_type(blocks, title) ==
    LET total_chars == total_chars_of(blocks)
        n == Len(blocks)
        font_sizes == sorted([i \in 1..n |-> blocks[i].font_size])
        profile(type, complexity, strategy) ==
            [total_blocks |-> n, total_chars |-> total_chars,
             unique_fonts |-> unique_fonts_of(blocks),
             font_size_range |-> IF n > 0 THEN font_sizes[n] - font_sizes[1] ELSE 0,
             type |-> type, complexity |-> complexity, recommended_strategy |-> strategy]
    IN  IF total_chars < 400 /\ n < 6 THEN profile("simple", "low", "span_preferred")
        ELSE IF total_chars > 15000 \/ n > 100 THEN profile("complex", "high", "block_preferred")
        ELSE IF is_form_document(blocks, title) THEN profile("form", "low", "minimal")
        ELSE IF n >= 6 /\ total_chars > 1000 THEN profile("standard", "medium", "block_preferred")
        ELSE IF n = 6 /\ total_chars < 500 THEN profile("flyer", "low", "block_preferred")
        ELSE profile("standard", "medium", "hybrid")

\* the entries reduced to level, text and page (and the ghost field)
build_flat_outline(outline) ==
    [n \in 1..Len(outline) |->
        [level |-> outline[n].level, text |-> outline[n].text, page |-> outline[n].page,
         src |-> outline[n].src]]

\* ------------------------------------------------------------------------
\* Span-level extraction (text_extraction.py)
\* A span is [text, font, size, flags, bbox, page, src]; its size is a pair
\* <<sum, count>>: the mean of count sizes of half points that add up to sum.
\* ------------------------------------------------------------------------
\* (the currency sign stands for the euro sign of the source's tenth pattern)
span_noise_patterns ==
    <<"qualifications board", "testing board", "international board", "copyright notice",
      "document may be copied", "source is acknowledged", ". *", ".*", "..",
      "â¤¢ *", "- *", "* *">>

\* font.split('-')[0]
RECURSIVE font_family(_)
font_family(font) ==
    IF Len(font) = 0 \/ Head(font) = "-" THEN ""
    ELSE Ch(font, 1) \o font_family(Tail(font))

abs(x) == IF x < 0 THEN 0 - x ELSE x

\* the key of sorted(spans): (page, bbox top, bbox left)
span_before(a, b) ==
    \/ a.page < b.page
    \/ a.page = b.page /\ a.bbox[2] < b.bbox[2]
    \/ a.page = b.page /\ a.bbox[2] = b.bbox[2] /\ a.bbox[1] < b.bbox[1]

RECURSIVE insert_span(_, _)
insert_span(q, sp) ==
    IF Len(q) = 0 THEN <<sp>>
    ELSE IF span_before(sp, Head(q)) THEN <<sp>> \o q
         ELSE <<Head(q)>> \o insert_span(Tail(q), sp)

RECURSIVE sort_spans(_)
sort_spans(q) ==
    IF Len(q) = 0 THEN <<>>
    ELSE insert_span(sort_spans(SubSeq(q, 1, Len(q) - 1)), q[Len(q)])

\* a grouping that does not ask for the page
joins_on_any_page(sorted_spans, i, j) ==
    LET current_span == sorted_spans[i]
        next_span == sorted_spans[j]
        size == current_span.size[1]
        y_diff == abs(next_span.bbox[2] - current_span.bbox[2])
        x_gap == next_span.bbox[1] - sorted_spans[j - 1].bbox[3]
    IN  /\ 16 * y_diff <= Max2(32, Min2(80, size))
        /\ x_gap <= Max2(20, Min2(50, size))
        /\ has_bold_flag(current_span.flags) = has_bold_flag(next_span.flags)
        /\ abs(next_span.size[1] - current_span.size[1]) < 16
        /\ font_family(current_span.font) = font_family(next_span.font)

\* whether the span at j joins the group that starts at i and ends at j - 1
joins_group(sorted_spans, i, j) ==
    LET current_span == sorted_spans[i]
        next_span == sorted_spans[j]
        size == current_span.size[1]              \* a single span: half points
        y_diff == abs(next_span.bbox[2] - current_span.bbox[2])
        x_gap == next_span.bbox[1] - sorted_spans[j - 1].bbox[3]
    IN  /\ next_span.page = current_span.page
        \* y_diff <= max(2, min(5, size / 8))
        /\ 16 * y_diff <= Max2(32, Min2(80, size))
        \* x_gap <= max(20, min(50, size * 2))
        /\ x_gap <= Max2(20, Min2(50, size))
        /\ has_bold_flag(current_span.flags) = has_bold_flag(next_span.flags)
        /\ abs(next_span.size[1] - current_span.size[1]) < 16
        /\ font_family(current_span.font) = font_family(next_span.font)

\* the index behind the group that starts at i, the group reaching j - 1 so far
RECURSIVE group_end(_, _, _)
group_end(sorted_spans, i, j) ==
    IF j <= Len(sorted_spans) /\ joins_group(sorted_spans, i, j)
    THEN group_end(sorted_spans, i, j + 1)
    ELSE j

RECURSIVE combine_text(_)
combine_text(group) ==
    IF Len(group) = 1 THEN group[1].text
    ELSE LET front == combine_text(SubSeq(group, 1, Len(group) - 1))
             last == group[Len(group)].text
         IN  IF contains("!?.,;:", last) THEN front \o last ELSE front \o " " \o last

RECURSIVE consolidate_from(_, _)
consolidate_from(sorted_spans, i) ==
    IF i > Len(sorted_spans) THEN <<>>
    ELSE LET j == group_end(sorted_spans, i, i + 1)
             potential_group == SubSeq(sorted_spans, i, j - 1)
             first_span == potential_group[1]
             consolidated_span ==
                 [text |-> combine_text(potential_group),
                  font |-> first_span.font,
                  size |-> <<SumSeq([n \in 1..Len(potential_group) |->
                                        potential_group[n].size[1]]),
                             Len(potential_group)>>,
                  flags |-> first_span.flags,
                  bbox |-> <<first_span.bbox[1], first_span.bbox[2],
                             potential_group[Len(potential_group)].bbox[3],
                             first_span.bbox[4]>>,
                  page |-> first_span.page,
                  src |-> first_span.src]
         IN  IF Len(potential_group) > 1
             THEN <<consolidated_span>> \o consolidate_from(sorted_spans, j)
             ELSE <<sorted_spans[i]>> \o consolidate_from(sorted_spans, i + 1)

consolidate_adjacent_spans(spans) ==
    IF Len(spans) = 0 THEN spans ELSE consolidate_from(sort_spans(spans), 1)

no_span_heading == [is_heading |-> FALSE, level |-> ""]

is_span_heading(text, font_size, font, bbox, font_stats, font_flags) ==
    LET words == word_count(text)
        font_lower == lower(font)
        is_bold == \/ has_bold_flag(font_flags)
                   \/ contains(font_lower, "bold") \/ contains(font_lower, "black")
        \* size_ratio = font_size / median, font_size = sum / count half points
        is_large == 10 * font_size[1] * font_stats.den > 28 * font_size[2] * font_stats.median
        is_very_large == 10 * font_size[1] * font_stats.den > 36 * font_size[2] * font_stats.median
        is_upper_case == isupper(text)
        \* [A-Z][a-z]+.*[A-Z]
        mixed_case_pattern ==
            re_search(Cat(<<Cls(UpperSet), Plus(Cls(LowerSet)), Star(Dot), Cls(UpperSet)>>), text)
        has_exclamation == endswith(text, "!")
        tl == lower(text)
    IN  IF Len(text) < 3 THEN no_span_heading
        ELSE IF is_noise_with_confidence(text, font_size, font_stats, span_noise_patterns)
        THEN no_span_heading
        ELSE IF words > 10 THEN no_span_heading
        ELSE IF /\ words <= 3 /\ ~has_exclamation
                /\ any_in(tl, <<"com", "www", "http", ".org", ".net", "parkway", "avenue",
                                "street", "rsvp:">>)
        THEN no_span_heading
        ELSE IF is_bold /\ is_large /\ words <= 8 THEN [is_heading |-> TRUE, level |-> "H1"]
        ELSE IF is_very_large /\ (is_upper_case \/ mixed_case_pattern) /\ words <= 8
        THEN [is_heading |-> TRUE, level |-> "H1"]
        ELSE IF /\ mixed_case_pattern /\ (has_exclamation \/ endswith(text, "?"))
                /\ words >= 3 /\ words <= 10
        THEN [is_heading |-> TRUE, level |-> "H1"]
        ELSE IF is_bold /\ words <= 4 THEN [is_heading |-> TRUE, level |-> "H3"]
        ELSE no_span_heading

\* every block of a modelled document has one line of one span, so a document
\* is the sequence of its spans, [text, size, font, flags, bbox, page], in
\* page order
RECURSIVE extract_text_blocks(_, _)
extract_text_blocks(pdf, custom_filters) ==
    IF Len(pdf) = 0 THEN <<>>
    ELSE LET span == pdf[Len(pdf)]
             norm_text == normalize_text(span.text, custom_filters)
             front == extract_text_blocks(SubSeq(pdf, 1, Len(pdf) - 1), custom_filters)
         IN  IF norm_text = "" THEN front
             ELSE Append(front, [text |-> strip(norm_text), font_size |-> span.size,
                                 font |-> span.font, font_flags |-> span.flags,
                                 page |-> span.page, bbox |-> span.bbox])

RECURSIVE all_spans_of(_, _)
all_spans_of(pdf, custom_filters) ==
    IF Len(pdf) = 0 THEN <<>>
    ELSE LET span == pdf[Len(pdf)]
             text == normalize_text(span.text, custom_filters)
             front == all_spans_of(SubSeq(pdf, 1, Len(pdf) - 1), custom_filters)
         IN  IF text = "" THEN front
             ELSE Append(front, [text |-> text, font |-> span.font, size |-> <<span.size, 1>>,
                                 flags |-> span.flags, bbox |-> span.bbox, page |-> span.page,
                                 src |-> Len(front) + 1])

extract_span_level_headings(pdf, font_stats, custom_filters) ==
    LET consolidated_spans == consolidate_adjacent_spans(all_spans_of(pdf, custom_filters))
        accepted(span) == is_span_heading(span.text, span.size, span.font, span.bbox,
                                          font_stats, span.flags).is_heading
        headings == SelectSeq(consolidated_spans, accepted)
    IN  [n \in 1..Len(headings) |->
            [text |-> headings[n].text,
             level |-> is_span_heading(headings[n].text, headings[n].size, headings[n].font,
                                       headings[n].bbox, font_stats, headings[n].flags).level,
             page |-> headings[n].page, font_size |-> headings[n].size,
             font |-> headings[n].font, src |-> headings[n].src]]

\* ------------------------------------------------------------------------
\* The float of the source language: IEEE 754 binary64, round to nearest,
\* ties to even.  A natural number is the sequence of its NatWidth digits of
\* base LimbBase, the lowest first; a positive float is [m, e], the number
\* m * 2^e with a mantissa m of MantissaBits bits.
\* ------------------------------------------------------------------------
LimbBits == 12 + 1
LimbBase == 2^LimbBits
NatWidth == 5 + 5
MantissaBits == 52 + 1

limb(x, i) == IF i \in 1..Len(x) THEN x[i] ELSE 0

\* the digits worked out, as a tuple
digits(f) == f \o <<>>

\* the digits of n < LimbBase^3
nat_of(n) ==
    digits([i \in 1..NatWidth |->
               IF i = 1 THEN n % LimbBase
               ELSE IF i = 2 THEN (n \div LimbBase) % LimbBase
               ELSE IF i = 3 THEN n \div (LimbBase * LimbBase)
               ELSE 0])

\* what column i - 1 of the sums cols carries into column i
RECURSIVE carry_into(_, _)
carry_into(cols, i) ==
    IF i = 1 THEN 0 ELSE (cols[i - 1] + carry_into(cols, i - 1)) \div LimbBase

carried(cols) ==
    digits([i \in 1..NatWidth |-> (cols[i] + carry_into(cols, i)) % LimbBase])

add_nat(x, y) == carried(digits([i \in 1..NatWidth |-> x[i] + y[i]]))

\* x * y for x, y below 2^MantissaBits
RECURSIVE column(_, _, _, _)
column(x, y, k, i) ==
    IF i > k THEN 0 ELSE limb(x, i) * limb(y, k + 1 - i) + column(x, y, k, i + 1)

mul_nat(x, y) == carried(digits([k \in 1..NatWidth |-> column(x, y, k, 1)]))

bits_of_limb(v) == CHOOSE n \in 0..LimbBits : v < 2^n /\ (n = 0 \/ v >= 2^(n - 1))

bit_length(x) ==
    IF \A i \in 1..NatWidth : x[i] = 0 THEN 0
    ELSE LET top == CHOOSE i \in 1..NatWidth : x[i] # 0 /\ \A j \in (i + 1)..NatWidth : x[j] = 0
         IN  LimbBits * (top - 1) + bits_of_limb(x[top])

\* x * 2^s and the whole part of x / 2^s
shift_left(x, s) ==
    LET q == s \div LimbBits
        r == s % LimbBits
    IN  digits([i \in 1..NatWidth |->
                   ((limb(x, i - q) * 2^r) % LimbBase)
                   + (limb(x, i - q - 1) \div 2^(LimbBits - r))])

shift_right(x, s) ==
    LET q == s \div LimbBits
        r == s % LimbBits
    IN  digits([i \in 1..NatWidth |->
                   (limb(x, i + q) \div 2^r)
                   + ((limb(x, i + q + 1) % 2^r) * 2^(LimbBits - r))])

\* bit n of x (bit 0 is the lowest), and whether a bit below bit n is set
bit_at(x, n) == (limb(x, n \div LimbBits + 1) \div 2^(n % LimbBits)) % 2

bits_below(x, n) ==
    \/ \E i \in 1..(n \div LimbBits) : limb(x, i) # 0
    \/ limb(x, n \div LimbBits + 1) % 2^(n % LimbBits) # 0

\* the whole part of x / d and the rest, for a divisor d < LimbBase
RECURSIVE rest_above(_, _, _)
rest_above(x, d, i) ==
    IF i > NatWidth THEN 0 ELSE (rest_above(x, d, i + 1) * LimbBase + x[i]) % d

quotient(x, d) ==
    digits([i \in 1..NatWidth |-> (rest_above(x, d, i + 1) * LimbBase + x[i]) \div d])

float_zero == [m |-> nat_of(0), e |-> 0]

\* the float nearest to x * 2^e, or to a number just above it when inexact
\* says that something was cut off x already
rounded(x, e, inexact) ==
    LET length == bit_length(x)
        s == length - MantissaBits
        cut == shift_right(x, s)
        up == /\ bit_at(x, s - 1) = 1
              /\ (bits_below(x, s - 1) \/ inexact \/ bit_at(cut, 0) = 1)
        m == IF up THEN add_nat(cut, nat_of(1)) ELSE cut
    IN  IF length = 0 THEN float_zero
        ELSE IF s <= 0 THEN [m |-> shift_left(x, 0 - s), e |-> e + s]
        ELSE IF bit_length(m) > MantissaBits THEN [m |-> shift_right(m, 1), e |-> e + s + 1]
        ELSE [m |-> m, e |-> e + s]

\* the float of the literal or the quotient n / d, for n < 2^10 and d < 2^10
float_of(n, d) ==
    LET scaled == shift_left(nat_of(n), MantissaBits + 10)
    IN  rounded(quotient(scaled, d), 0 - (MantissaBits + 10), rest_above(scaled, d, 1) # 0)

float_mul(a, b) ==
    IF a = float_zero \/ b = float_zero THEN float_zero
    ELSE rounded(mul_nat(a.m, b.m), a.e + b.e, FALSE)

\* a + b for floats whose exponents differ by less than MantissaBits
float_add(a, b) ==
    IF a = float_zero THEN b
    ELSE IF b = float_zero THEN a
    ELSE IF a.e >= b.e THEN rounded(add_nat(shift_left(a.m, a.e - b.e), b.m), b.e, FALSE)
    ELSE rounded(add_nat(shift_left(b.m, b.e - a.e), a.m), a.e, FALSE)

\* the literals of the source, by the number of their tenths
float_literals == [tenths \in {3, 8, 12, 15, 30} |-> float_of(tenths, 10)]

\* x after the operations ops, each a product or a sum with a literal
RECURSIVE float_apply(_, _)
float_apply(x, ops) ==
    IF Len(ops) = 0 THEN x
    ELSE float_apply(IF Head(ops).op = "*" THEN float_mul(x, float_literals[Head(ops).tenths])
                     ELSE float_add(x, float_literals[Head(ops).tenths]),
                     Tail(ops))

times(tenths) == [op |-> "*", tenths |-> tenths]
plus(tenths) == [op |-> "+", tenths |-> tenths]

\* a > b
float_gt(a, b) ==
    IF a = float_zero THEN FALSE
    ELSE IF b = float_zero THEN TRUE
    ELSE \/ a.e > b.e
         \/ /\ a.e = b.e
            /\ \E i \in 1..NatWidth :
                  a.m[i] > b.m[i] /\ \A j \in (i + 1)..NatWidth : a.m[j] = b.m[j]

\* ------------------------------------------------------------------------
\* Strategy Selector (extractor.py)
\* ------------------------------------------------------------------------
meaningful_patterns ==
    <<"introduction", "conclusion", "summary", "background", "overview", "methodology",
      "results", "discussion", "references", "abstract", "pathway", "options",
      "requirements", "hope", "see you", "there">>

\* a selector that takes one keyword for enough
any_meaningful_content(outline) ==
    \E n \in 1..Len(outline) : any_in(lower(outline[n].text), meaningful_patterns)

has_meaningful_content(outline) ==
    LET meaningful(n) == /\ Len(outline[n].text) > 3
                         /\ ~isdigit(outline[n].text)
                         /\ any_in(lower(outline[n].text), meaningful_patterns)
        meaningful_count == Cardinality({n \in 1..Len(outline) : meaningful(n)})
    IN  \* meaningful_count >= max(1, len(outline) * 0.3)
        /\ Len(outline) > 0
        /\ meaningful_count >= 1
        /\ 10 * meaningful_count >= 3 * Len(outline)

structural_patterns ==
    <<"introduction", "conclusion", "summary", "overview", "references", "table of contents",
      "background", "methodology", "results", "discussion">>

\* the quality score, a binary64 as the code computes it: the additions are of
\* halves and exact, the products by 0.8, 0.3, 1.5 and 1.2 are rounded
calculate_outline_quality(outline, blocks, title, method) ==
    LET has_level(l) == \E n \in 1..Len(outline) : outline[n].level = l
        structural == Cardinality({n \in 1..Len(outline) :
                          any_in(lower(outline[n].text), structural_patterns)})
        halves == Len(outline)
                + (IF has_level("H1") THEN 4 ELSE 0)
                + (IF has_level("H2") THEN 2 ELSE 0)
                + (IF has_level("H3") THEN 1 ELSE 0)
                + 2 * structural
        total_chars == total_chars_of(blocks)
        invitation == \E n \in 1..Len(outline) :
                          \/ contains(lower(outline[n].text), "hope")
                          \/ contains(lower(outline[n].text), "see you")
        adjustments ==
            (IF total_chars < 1000 /\ method = "span" THEN <<times(15)>> ELSE <<>>)
            \o (IF total_chars > 5000 /\ method = "block" THEN <<times(12)>> ELSE <<>>)
            \o (IF method = "span" /\ invitation THEN <<plus(30)>> ELSE <<>>)
        \* len(outline), len(blocks) * 0.8, and the score without and with the
        \* penalty, each a number of halves and what is done with it
        terms == [count |-> [halves |-> 2 * Len(outline), ops |-> <<>>],
                  limit |-> [halves |-> 2 * Len(blocks), ops |-> <<times(8)>>],
                  plain |-> [halves |-> halves, ops |-> adjustments],
                  capped |-> [halves |-> halves, ops |-> <<times(3)>> \o adjustments]]
        value == [k \in DOMAIN terms |-> float_apply(float_of(terms[k].halves, 2), terms[k].ops)]
    IN  IF Len(outline) = 0 THEN float_zero
        ELSE IF float_gt(value["count"], value["limit"]) THEN value["capped"]
        ELSE value["plain"]

select_best_extraction(block_outline, span_outline, blocks, title) ==
    LET quality == [method \in {"span", "block"} |->
                       calculate_outline_quality(
                           IF method = "span" THEN span_outline ELSE block_outline,
                           blocks, title, method)]
    IN  IF Len(block_outline) = 0 /\ Len(span_outline) > 0 THEN span_outline
        ELSE IF Len(span_outline) = 0 /\ Len(block_outline) > 0 THEN block_outline
        ELSE IF Len(block_outline) = 0 /\ Len(span_outline) = 0 THEN <<>>
        ELSE IF float_gt(quality["span"], quality["block"]) THEN span_outline
        ELSE block_outline

smart_extraction_strategy(cfg, block_outline, blocks, font_stats, title, doc_info, pdf) ==
    LET strategy == doc_info.recommended_strategy
        span_flat_outline ==
            build_flat_outline(post_process_headings(
                extract_span_level_headings(pdf, font_stats, cfg.custom_filters),
                title, font_stats))
    IN  IF strategy = "minimal" THEN <<>>
        ELSE IF strategy = "span_preferred"
        THEN IF Len(span_flat_outline) > 0 /\ has_meaningful_content(span_flat_outline)
             THEN span_flat_outline
             ELSE block_outline
        ELSE IF strategy = "block_preferred"
        THEN IF Len(block_outline) >= 3 THEN block_outline ELSE span_flat_outline
        ELSE select_best_extraction(block_outline, span_flat_outline, blocks, title)

\* extract_outline from the post-processed block outline on: the form branch
\* keeps the block outline, every other document goes through the strategy
select_outline(cfg, outline, blocks, font_stats, title, doc_info, pdf) ==
    IF is_form_document(blocks, title) THEN build_flat_outline(outline)
    ELSE smart_extraction_strategy(cfg, build_flat_outline(outline), blocks, font_stats,
                                   title, doc_info, pdf)

\* extract_outline as a function of the configuration and the document: the
\* stages of the pipeline one after the other; each stage is worked out once,
\* as the one member of a set, and the stages after it take its value
the_one(S) == CHOOSE x \in S : TRUE

result_of_profile(cfg, pdf, blocks, font_stats, outline, title, doc_info) ==
    the_one({[title |-> title,
              outline |-> select_outline(cfg, processed, blocks, font_stats, title, doc_info,
                                         pdf)] :
                processed \in {post_process_headings(outline, title, font_stats)}})

result_of_title(cfg, pdf, blocks, font_stats, outline, title) ==
    the_one({result_of_profile(cfg, pdf, blocks, font_stats, outline, title, profile) :
                profile \in {analyze_document_type(blocks, title)}})

result_of_statistics(cfg, pdf, blocks, font_stats) ==
    the_one({result_of_title(cfg, pdf, blocks, font_stats, detected, found) :
                detected \in {multi_pass_heading_detection(cfg, blocks, font_stats, 612)},
                found \in {extract_title(cfg, blocks, font_stats)}})

result_of_blocks(cfg, pdf, blocks) ==
    the_one({result_of_statistics(cfg, pdf, blocks, statistics) :
                statistics \in {analyze_font_statistics(blocks)}})

extract_result(cfg, pdf) ==
    the_one({result_of_blocks(cfg, pdf, text_blocks) :
                text_blocks \in {extract_text_blocks(pdf, cfg.custom_filters)}})

\* ------------------------------------------------------------------------
\* The extractor as a state machine.  pc is the position inside
\* extract_outline: idle, blocks (text extracted), analyzed (font statistics),
\* detected (multi-pass detection), profiled (title and document type),
\* processed (post-processing), done (strategy applied, output returned).
\* ------------------------------------------------------------------------
VARIABLES pc, cfg, pdf, blocks, font_stats, outline, title, doc_info, flat_outline,
          processing_stats, probe, answer

\* process_pdfs_advanced: the paths of the batch, its mode, the cache shared
\* by the workers, one future per path, the results collected, the statistics
\* of the batch and the position of the main thread; extracted is what
\* extract_outline returns for each content of a file
VARIABLES pdf_paths, parallel, cache, futures, results, batch_stats, main, extracted

batch_vars == <<pdf_paths, parallel, cache, futures, results, batch_stats, main, extracted>>

vars == <<pc, cfg, pdf, blocks, font_stats, outline, title, doc_info, flat_outline,
          processing_stats, probe, answer, batch_vars>>

no_batch_stats == [total_files |-> 0, successful |-> 0, failed |-> 0, cached |-> 0]

\* no batch is running
no_batch ==
    /\ pdf_paths = <<>>
    /\ parallel = FALSE
    /\ cache = <<>>
    /\ futures = <<>>
    /\ results = <<>>
    /\ batch_stats = no_batch_stats
    /\ main = "idle"
    /\ extracted = <<>>

\* the number of blocks of a document
MaxBlocks == 3

\* doc[0].rect.width of the modelled documents (US Letter)
page_width == 612

\* the kinds of span a document is made of: [text, size, flags]
kind(text, size, flags) == [text |-> text, size |-> size, flags |-> flags]

report_corpus ==
    <<kind("Overview", 24, 0), kind("Overview", 32, 0),
      kind("Scope", 24, 0), kind("Scope", 32, 0)>>

web_corpus ==
    <<kind(" www.example.com", 24, 0), kind("www.example.com", 40, 16),
      kind("Overview", 24, 16), kind("Scope", 32, 16)>>

\* a row of field labels, and a table of nine rows: 423 characters
form_row == "Name Designation Date Salary Grade Pay Station "
form_table == form_row \o form_row \o form_row \o form_row \o form_row \o form_row
              \o form_row \o form_row \o form_row

form_corpus ==
    <<kind("Application Form", 32, 16), kind("Name  Designation Date Salary", 24, 0),
      kind("  ", 24, 0), kind(form_table, 24, 0)>>

numbered_corpus ==
    <<kind("1. Introduction", 40, 0), kind("1.1 Background", 32, 0),
      kind("1.1.1 Detail", 26, 0)>>

Corpora == <<report_corpus, web_corpus, form_corpus, numbered_corpus>>

\* where the spans lie: all on page 0, all on page 1, or the first on page 0
\* and the others on page 1; from the top of the page down, or up
PageLayouts == {"first", "second", "split"}
Orders == {"down", "up"}

page_of(layout, i) ==
    IF layout = "first" THEN 0
    ELSE IF layout = "second" THEN 1
    ELSE IF i = 1 THEN 0 ELSE 1

top_of(order, n, i) == IF order = "down" THEN 100 * i ELSE 100 * (n + 1 - i)

make_pdf(kinds, layout, order) ==
    [i \in 1..Len(kinds) |->
        [text |-> kinds[i].text, size |-> kinds[i].size, font |-> "Arial",
         flags |-> kinds[i].flags, page |-> page_of(layout, i),
         bbox |-> <<72, top_of(order, Len(kinds), i), 300, top_of(order, Len(kinds), i) + 20>>]]

KindLists ==
    UNION {[1..n -> {Corpora[c][k] : k \in 1..Len(Corpora[c])}] :
              n \in 0..MaxBlocks, c \in 1..Len(Corpora)}

Documents == {make_pdf(k, l, o) : k \in KindLists, l \in PageLayouts, o \in Orders}

\* doc_info before the classification
no_profile ==
    [total_blocks |-> 0, total_chars |-> 0, unique_fonts |-> 0, font_size_range |-> 0,
     type |-> "unknown", complexity |-> "medium", recommended_strategy |-> "hybrid"]

\* self.processing_stats, without the processing time
no_stats ==
    [total_files |-> 0, successful_extractions |-> 0, failed_extractions |-> 0,
     total_headings |-> 0]

no_probe == [text |-> ""]

Constructed ==
    /\ cfg = default_config
    /\ pdf = <<>>
    /\ blocks = <<>>
    /\ font_stats = default_font_stats
    /\ outline = <<>>
    /\ title = ""
    /\ doc_info = no_profile
    /\ flat_outline = <<>>
    /\ processing_stats = no_stats
    /\ probe = no_probe
    /\ answer = <<>>
    /\ no_batch

Init == pc = "idle" /\ Constructed

\* extract_outline, up to the extracted blocks
ExtractTextBlocks ==
    /\ pc = "idle"
    /\ \E d \in Documents :
          /\ pdf' = d
          /\ blocks' = extract_text_blocks(d, cfg.custom_filters)
    /\ processing_stats' = [processing_stats EXCEPT !.total_files = @ + 1]
    /\ pc' = "blocks"
    /\ UNCHANGED <<cfg, font_stats, outline, title, doc_info, flat_outline, probe, answer>>
    /\ UNCHANGED batch_vars

AnalyzeFontStatistics ==
    /\ pc = "blocks"
    /\ font_stats' = analyze_font_statistics(blocks)
    /\ pc' = "analyzed"
    /\ UNCHANGED <<cfg, pdf, blocks, outline, title, doc_info, flat_outline,
                   processing_stats, probe, answer>>
    /\ UNCHANGED batch_vars

MultiPassHeadingDetection ==
    /\ pc = "analyzed"
    /\ outline' = multi_pass_heading_detection(cfg, blocks, font_stats, page_width)
    /\ pc' = "detected"
    /\ UNCHANGED <<cfg, pdf, blocks, font_stats, title, doc_info, flat_outline,
                   processing_stats, probe, answer>>
    /\ UNCHANGED batch_vars

\* extract_title and _analyze_document_type
ExtractTitle ==
    /\ pc = "detected"
    /\ title' = extract_title(cfg, blocks, font_stats)
    /\ doc_info' = analyze_document_type(blocks, title')
    /\ pc' = "profiled"
    /\ UNCHANGED <<cfg, pdf, blocks, font_stats, outline, flat_outline,
                   processing_stats, probe, answer>>
    /\ UNCHANGED batch_vars

PostProcessHeadings ==
    /\ pc = "profiled"
    /\ outline' = post_process_headings(outline, title, font_stats)
    /\ pc' = "processed"
    /\ UNCHANGED <<cfg, pdf, blocks, font_stats, title, doc_info, flat_outline,
                   processing_stats, probe, answer>>
    /\ UNCHANGED batch_vars

\* the form branch or the strategy, and the statistics of a successful run
SelectOutline ==
    /\ pc = "processed"
    /\ flat_outline' = select_outline(cfg, outline, blocks, font_stats, title, doc_info, pdf)
    /\ processing_stats' =
          [processing_stats EXCEPT !.successful_extractions = @ + 1,
                                   !.total_headings = @ + Len(flat_outline')]
    /\ pc' = "done"
    /\ UNCHANGED <<cfg, pdf, blocks, font_stats, outline, title, doc_info, probe, answer>>
    /\ UNCHANGED batch_vars

Next ==
    \/ ExtractTextBlocks
    \/ AnalyzeFontStatistics
    \/ MultiPassHeadingDetection
    \/ ExtractTitle
    \/ PostProcessHeadings
    \/ SelectOutline

Spec == Init /\ [][Next]_vars

\* ------------------------------------------------------------------------
\* The Font Statistics Analyzer on its own: every list of up to MaxSizes
\* blocks whose sizes come from FontSizes (half points; 0 is a block without
\* a positive size)
\* ------------------------------------------------------------------------
MaxSizes == 5

FontSizes == {0, 8, 24, 25, 26, 27, 80}

sized_block(size) ==
    [text |-> "body text", font_size |-> size, font |-> "Arial", font_flags |-> 0,
     page |-> 0, bbox |-> <<72, 100, 300, 120>>]

SizeLists == UNION {[1..n -> FontSizes] : n \in 0..MaxSizes}

InitFont ==
    /\ pc = "blocks"
    /\ blocks \in {[i \in 1..Len(q) |-> sized_block(q[i])] : q \in SizeLists}
    /\ cfg = default_config
    /\ pdf = <<>>
    /\ font_stats = default_font_stats
    /\ outline = <<>>
    /\ title = ""
    /\ doc_info = no_profile
    /\ flat_outline = <<>>
    /\ processing_stats = no_stats
    /\ probe = no_probe
    /\ answer = <<>>
    /\ no_batch

NextFont == AnalyzeFontStatistics

SpecFont == InitFont /\ [][NextFont]_vars

\* ------------------------------------------------------------------------
\* The Confidence Scorer on its own: a probe is one call of
\* calculate_heading_confidence, scored against the statistics of a corpus
\* ------------------------------------------------------------------------
ProbeTexts ==
    {"Project Plan", "Overview", "Name", "1. Introduction", "1.1 Background", "Summary:",
     "a b c d e f g h i j k l m n o p"}

\* the sizes of the blocks of a corpus, in half points; the median of the
\* first three is 12 points, the thresholds of the last are above 60 points
ProbeCorpora ==
    {<<24>>, <<24, 24, 24, 32>>, <<20, 24, 24, 60, 80>>, <<20, 20>>,
     <<24, 24, 24, 26, 400, 420>>}

ProbeSizes == {24, 32, 36, 48}
ProbeFlags == {0, 16}
ProbeTops == {50, 400}

Probes ==
    [text : ProbeTexts, font_size : ProbeSizes, font : {"Arial"}, font_flags : ProbeFlags,
     page : {0}, bbox : {<<72, top, 300, top + 20>> : top \in ProbeTops}]

InitScore ==
    /\ pc = "blocks"
    /\ blocks \in {[i \in 1..Len(q) |-> sized_block(q[i])] : q \in ProbeCorpora}
    /\ probe \in Probes
    /\ cfg = default_config
    /\ pdf = <<>>
    /\ font_stats = default_font_stats
    /\ outline = <<>>
    /\ title = ""
    /\ doc_info = no_profile
    /\ flat_outline = <<>>
    /\ processing_stats = no_stats
    /\ answer = <<>>
    /\ no_batch

CalculateHeadingConfidence ==
    /\ pc = "analyzed"
    /\ answer' = calculate_heading_confidence(probe.text, probe.font_size, probe.font,
                     probe.bbox, font_stats, probe.font_flags, <<>>, cfg.structural_words)
    /\ pc' = "scored"
    /\ UNCHANGED <<cfg, pdf, blocks, font_stats, outline, title, doc_info, flat_outline,
                   processing_stats, probe>>
    /\ UNCHANGED batch_vars

NextScore ==
    \/ AnalyzeFontStatistics
    \/ CalculateHeadingConfidence

SpecScore == InitScore /\ [][NextScore]_vars

\* ------------------------------------------------------------------------
\* The Hierarchy Validator and Deduplicator on its own: every list of up to
\* MaxCandidates candidate records, as the detection passes build them
\* (without a bbox), and a title
\* ------------------------------------------------------------------------
MaxCandidates == 3

\* the page and the confidence of a candidate
CandidatePlaces == {<<0, 400>>, <<0, 900>>, <<1, 900>>}

CandidateKinds ==
    [text : {"Overview", "OVERVIEW", "Scope"}, level : {"H1", "H2", "H3"},
     place : CandidatePlaces]

candidate(k, i) ==
    [text |-> k.text, level |-> k.level, page |-> k.place[1], font_size |-> 24,
     font |-> "Arial", confidence |-> k.place[2], src |-> i]

CandidateLists ==
    {[i \in 1..Len(q) |-> candidate(q[i], i)] :
        q \in UNION {[1..n -> CandidateKinds] : n \in 0..MaxCandidates}}

Titles == {"", "Scope"}

InitPost ==
    /\ pc = "profiled"
    /\ outline \in CandidateLists
    /\ title \in Titles
    /\ cfg = default_config
    /\ pdf = <<>>
    /\ blocks = <<>>
    /\ font_stats = default_font_stats
    /\ doc_info = no_profile
    /\ flat_outline = <<>>
    /\ processing_stats = no_stats
    /\ probe = no_probe
    /\ answer = <<>>
    /\ no_batch

\* _post_process_headings applied to its own output
PostProcessAgain ==
    /\ pc = "processed"
    /\ answer' = post_process_headings(outline, title, font_stats)
    /\ pc' = "reprocessed"
    /\ UNCHANGED <<cfg, pdf, blocks, font_stats, outline, title, doc_info, flat_outline,
                   processing_stats, probe>>
    /\ UNCHANGED batch_vars

NextPost ==
    \/ PostProcessHeadings
    \/ PostProcessAgain

SpecPost == InitPost /\ [][NextPost]_vars

\* ------------------------------------------------------------------------
\* The Hierarchy Validator on its own, over the same candidate lists
\* ------------------------------------------------------------------------
\* _validate_hierarchy applied to the candidates
ValidateHierarchy ==
    /\ pc = "profiled"
    /\ answer' = validate_hierarchy(outline)
    /\ pc' = "validated"
    /\ UNCHANGED <<cfg, pdf, blocks, font_stats, outline, title, doc_info, flat_outline,
                   processing_stats, probe>>
    /\ UNCHANGED batch_vars

NextValidate == ValidateHierarchy

SpecValidate == InitPost /\ [][NextValidate]_vars

\* ------------------------------------------------------------------------
\* The multi-pass detector on its own, over documents of many blocks: a few
\* bold headings of 16 points, then the same line of body text of 12 points
\* again and again, thirty blocks to the page
\* ------------------------------------------------------------------------
\* the number of body blocks of the longest document
MaxBody == 101

BodyCounts == {0, 5, 51, MaxBody}

\* a short line that Pass 1 takes for a heading, and a sentence that no pass
\* takes for one
BodyTexts == {"plain words here", "the rest of the day went by without any event at all."}

HeadLists ==
    {<<>>, <<"Overview">>, <<"Go">>, <<"Overview", "Go">>, <<"Overview", "Scope", "Go">>,
     <<"Overview", "Scope", "Summary", "Go">>}

detect_block(text, size, flags, i) ==
    [text |-> text, font_size |-> size, font |-> "Arial", font_flags |-> flags,
     page |-> (i - 1) \div 30, bbox |-> <<72, 100, 300, 120>>]

detect_doc(heads, body, n) ==
    [i \in 1..(Len(heads) + n) |->
        IF i <= Len(heads) THEN detect_block(heads[i], 32, 16, i)
        ELSE detect_block(body, 24, 0, i)]

DetectDocuments == {detect_doc(h, b, n) : h \in HeadLists, b \in BodyTexts, n \in BodyCounts}

InitDetect ==
    /\ pc = "blocks"
    /\ blocks \in DetectDocuments
    /\ cfg = default_config
    /\ pdf = <<>>
    /\ font_stats = default_font_stats
    /\ outline = <<>>
    /\ title = ""
    /\ doc_info = no_profile
    /\ flat_outline = <<>>
    /\ processing_stats = no_stats
    /\ probe = no_probe
    /\ answer = <<>>
    /\ no_batch

\* Pass 1 of _multi_pass_heading_detection, its candidates kept in answer
FirstPass ==
    /\ pc = "analyzed"
    /\ answer' = pass1(cfg, blocks, font_stats, page_width, 1,
                       [outline |-> <<>>, seen_headings |-> {}])
    /\ pc' = "first_pass"
    /\ UNCHANGED <<cfg, pdf, blocks, font_stats, outline, title, doc_info, flat_outline,
                   processing_stats, probe>>
    /\ UNCHANGED batch_vars

\* Pass 2 of _multi_pass_heading_detection and its return
SecondPass ==
    /\ pc = "first_pass"
    /\ outline' = second_pass(cfg, blocks, font_stats, answer)
    /\ pc' = "detected"
    /\ UNCHANGED <<cfg, pdf, blocks, font_stats, title, doc_info, flat_outline,
                   processing_stats, probe, answer>>
    /\ UNCHANGED batch_vars

NextDetect == AnalyzeFontStatistics \/ FirstPass \/ SecondPass

SpecDetect == InitDetect /\ [][NextDetect]_vars

\* ------------------------------------------------------------------------
\* One extractor used for several documents in a row: extract_outline is
\* called again on the instance that the call before has left, and answer
\* collects what each call returned
\* ------------------------------------------------------------------------
\* the number of calls of extract_outline on one instance
MaxRuns == 2

RunDocuments ==
    {make_pdf(<<>>, "first", "down"),
     make_pdf(<<report_corpus[2], report_corpus[3]>>, "split", "down"),
     make_pdf(<<web_corpus[2], web_corpus[4]>>, "split", "down"),
     make_pdf(<<form_corpus[1], form_corpus[4]>>, "split", "down"),
     make_pdf(<<numbered_corpus[1], numbered_corpus[2]>>, "split", "down")}

\* what extract_outline returns for each of the documents on a new instance
result_of ==
    [d \in RunDocuments |-> the_one({extract_result(config, d) : config \in {default_config}})]

InitRuns == pc = "ready" /\ Constructed

\* a variant of the call that works on the blocks the call before has left
ExtractStale ==
    /\ pc = "ready"
    /\ Len(answer) < MaxRuns
    /\ \E d \in RunDocuments :
          /\ pdf' = d
          /\ blocks' = IF blocks # <<>> THEN blocks
                       ELSE extract_text_blocks(d, cfg.custom_filters)
    /\ processing_stats' = [processing_stats EXCEPT !.total_files = @ + 1]
    /\ pc' = "blocks"
    /\ UNCHANGED <<cfg, font_stats, outline, title, doc_info, flat_outline, probe, answer>>
    /\ UNCHANGED batch_vars

\* the next call of extract_outline, up to the extracted blocks
ExtractNext ==
    /\ pc = "ready"
    /\ Len(answer) < MaxRuns
    /\ \E d \in RunDocuments :
          /\ pdf' = d
          /\ blocks' = extract_text_blocks(d, cfg.custom_filters)
    /\ processing_stats' = [processing_stats EXCEPT !.total_files = @ + 1]
    /\ pc' = "blocks"
    /\ UNCHANGED <<cfg, font_stats, outline, title, doc_info, flat_outline, probe, answer>>
    /\ UNCHANGED batch_vars

\* return output: the title and the outline go to the caller, the instance
\* stays as it is
ReturnOutput ==
    /\ pc = "done"
    /\ answer' = Append(answer, [pdf |-> pdf, title |-> title, outline |-> flat_outline])
    /\ pc' = "ready"
    /\ UNCHANGED <<cfg, pdf, blocks, font_stats, outline, title, doc_info, flat_outline,
                   processing_stats, probe>>
    /\ UNCHANGED batch_vars

NextRuns ==
    \/ ExtractNext
    \/ AnalyzeFontStatistics
    \/ MultiPassHeadingDetection
    \/ ExtractTitle
    \/ PostProcessHeadings
    \/ SelectOutline
    \/ ReturnOutput

SpecRuns == InitRuns /\ [][NextRuns]_vars

\* ------------------------------------------------------------------------
\* The statistics of one extractor (SpecStats): up to MaxCalls calls of
\* extract_outline on one instance, on a document of StatsDocuments, on a
\* path that validate_pdf refuses, or on a file whose text cannot be
\* extracted
\* ------------------------------------------------------------------------
MaxCalls == 3

StatsDocuments ==
    {make_pdf(<<>>, "first", "down"),
     make_pdf(<<report_corpus[2], report_corpus[3]>>, "split", "down")}

\* extract_outline on a valid file, up to the extracted blocks
ExtractCounted ==
    /\ pc = "ready"
    /\ processing_stats.total_files < MaxCalls
    /\ \E d \in StatsDocuments :
          /\ pdf' = d
          /\ blocks' = extract_text_blocks(d, cfg.custom_filters)
    /\ processing_stats' = [processing_stats EXCEPT !.total_files = @ + 1]
    /\ pc' = "blocks"
    /\ UNCHANGED <<cfg, font_stats, outline, title, doc_info, flat_outline, probe, answer>>
    /\ UNCHANGED batch_vars

\* extract_outline on a path that validate_pdf refuses: the failure is counted
\* before the ValueError is raised, and again in the except clause
ExtractInvalid ==
    /\ pc = "ready"
    /\ processing_stats.total_files < MaxCalls
    /\ processing_stats' =
          [processing_stats EXCEPT !.total_files = @ + 1, !.failed_extractions = @ + 1 + 1]
    /\ UNCHANGED <<pc, cfg, pdf, blocks, font_stats, outline, title, doc_info, flat_outline,
                   probe, answer>>
    /\ UNCHANGED batch_vars

\* extract_outline on a valid file whose extraction raises: counted in the
\* except clause
ExtractBroken ==
    /\ pc = "ready"
    /\ processing_stats.total_files < MaxCalls
    /\ processing_stats' =
          [processing_stats EXCEPT !.total_files = @ + 1, !.failed_extractions = @ + 1]
    /\ UNCHANGED <<pc, cfg, pdf, blocks, font_stats, outline, title, doc_info, flat_outline,
                   probe, answer>>
    /\ UNCHANGED batch_vars

NextStats ==
    \/ ExtractCounted
    \/ AnalyzeFontStatistics
    \/ MultiPassHeadingDetection
    \/ ExtractTitle
    \/ PostProcessHeadings
    \/ SelectOutline
    \/ ReturnOutput
    \/ ExtractInvalid
    \/ ExtractBroken

SpecStats == InitRuns /\ [][NextStats]_vars

\* ------------------------------------------------------------------------
\* Batch processing (processor.py, process_pdfs_advanced and
\* process_single_pdf).  One extractor and one cache serve every path of the
\* batch.  In parallel mode a pool of MaxWorkers threads runs
\* process_single_pdf on the paths and the main thread collects the futures
\* as they complete; in sequential mode the main thread runs the paths one
\* after the other.  A thread may be interrupted between any two of its
\* accesses to the cache and to the statistics of the extractor, so every
\* such access is a step of its own: x += 1 reads x (load) and writes it
\* (store).
\* ------------------------------------------------------------------------
\* the number of paths of a batch, and the threads of the pool
MaxFiles == 2

MaxWorkers == 2

\* the files on disk: the path, what the file is (valid: a PDF that can be
\* extracted; invalid: validate_pdf rejects it; broken: validate_pdf accepts
\* it and the extraction raises) and the name of its content
FileSystem ==
    {[path |-> "in/a.pdf", kind |-> "valid", content |-> "report"],
     [path |-> "in/sub/a.pdf", kind |-> "valid", content |-> "numbered"],
     [path |-> "in/b.pdf", kind |-> "invalid", content |-> "empty"],
     [path |-> "in/c.pdf", kind |-> "broken", content |-> "damaged"]}

\* the pages of each content, as far as they can be read
Contents ==
    [report |-> make_pdf(<<report_corpus[2], report_corpus[3]>>, "split", "down"),
     numbered |-> make_pdf(<<numbered_corpus[1], numbered_corpus[2]>>, "split", "down"),
     empty |-> make_pdf(<<>>, "first", "down"),
     damaged |-> make_pdf(<<web_corpus[2]>>, "first", "down")]

\* os.path.basename
RECURSIVE basename(_)
basename(path) ==
    IF Len(path) = 0 THEN ""
    ELSE IF Ch(path, Len(path)) = "/" THEN ""
    ELSE basename(SubSeq(path, 1, Len(path) - 1)) \o SubSeq(path, Len(path), Len(path))

\* _generate_file_hash: the digest of the bytes of the file, equal for equal
\* contents and different for different ones
file_hash_of(file) == "md5 of " \o file.content

\* extract_outline on a valid file, for a new instance: the title and the
\* outline of its content
extraction_of ==
    [c \in DOMAIN Contents |->
        the_one({extract_result(config, d) : config \in {default_config}, d \in {Contents[c]}})]

file_at(path) == CHOOSE f \in FileSystem : f.path = path

Filenames == {basename(f.path) : f \in FileSystem}

no_entry == [present |-> FALSE, hash |-> "", result |-> [title |-> "", outline |-> <<>>]]

entry(hash, result) == [present |-> TRUE, hash |-> hash, result |-> result]

\* load_cache_file: no cache file, the entry a run on in/a.pdf has left, or
\* the entry of an earlier content of a file a.pdf
CacheFiles(extraction) ==
    {[n \in Filenames |-> no_entry],
     [n \in Filenames |->
        IF n = "a.pdf" THEN entry("md5 of report", extraction["report"]) ELSE no_entry],
     [n \in Filenames |->
        IF n = "a.pdf" THEN entry("md5 of draft", [title |-> "Draft", outline |-> <<>>])
        ELSE no_entry]}

\* the lists of up to MaxFiles different paths
PathLists ==
    {q \in UNION {[1..n -> {f.path : f \in FileSystem}] : n \in 1..MaxFiles} :
        \A m, n \in 1..Len(q) : m # n => q[m] # q[n]}

\* the counters of the extractor that extract_outline adds to, in their
\* order, for each kind of file (extractor.py 588, 595, 675, 676, 687)
counters_of(file_kind) ==
    CASE file_kind = "valid" -> <<"total_files", "successful_extractions", "total_headings">>
      [] file_kind = "invalid" -> <<"total_files", "failed_extractions", "failed_extractions">>
      [] file_kind = "broken" -> <<"total_files", "failed_extractions">>

\* a future: where its thread stands, the counter it is at, the value it has
\* loaded, and what process_single_pdf returns
queued == [pc |-> "queued", at |-> 0, reg |-> 0,
           result |-> [status |-> "", cached |-> FALSE, title |-> "", outline |-> <<>>]]

success(result, cached) ==
    [status |-> "success", cached |-> cached, title |-> result.title,
     outline |-> result.outline]

error_result == [status |-> "error", cached |-> FALSE, title |-> "", outline |-> <<>>]

InitBatch ==
    /\ pc = "batch"
    /\ cfg = default_config
    /\ pdf = <<>>
    /\ blocks = <<>>
    /\ font_stats = default_font_stats
    /\ outline = <<>>
    /\ title = ""
    /\ doc_info = no_profile
    /\ flat_outline = <<>>
    /\ processing_stats = no_stats
    /\ probe = no_probe
    /\ answer = <<>>
    /\ extracted = extraction_of
    /\ pdf_paths \in PathLists
    /\ parallel \in BOOLEAN
    /\ cache \in CacheFiles(extracted)
    /\ futures = [i \in 1..Len(pdf_paths) |-> queued]
    /\ results = <<>>
    /\ batch_stats = [no_batch_stats EXCEPT !.total_files = Len(pdf_paths)]
    /\ main = "collecting"

pipeline_vars == <<pc, cfg, pdf, blocks, font_stats, outline, title, doc_info, flat_outline,
                   probe, answer>>

in_pool == parallel /\ Len(pdf_paths) > 1

running(i) == futures[i].pc \notin {"queued", "finished", "collected"}

\* a thread of the pool takes the next path when fewer than MaxWorkers paths
\* are being worked on; the sequential loop takes it when the path before is
\* done with
may_start(i) ==
    /\ \A j \in 1..(i - 1) : futures[j].pc # "queued"
    /\ IF in_pool
       THEN Cardinality({j \in 1..Len(pdf_paths) : running(j)}) < MaxWorkers
       ELSE \A j \in 1..(i - 1) : futures[j].pc = "collected"

\* process_single_pdf is entered
StartTask(i) ==
    /\ futures[i].pc = "queued"
    /\ may_start(i)
    /\ futures' = [futures EXCEPT ![i].pc = "check_cache"]
    /\ UNCHANGED <<pipeline_vars, processing_stats, pdf_paths, parallel, cache, results,
                   batch_stats, main, extracted>>

\* _is_cached: filename in cache and cache[filename].get("hash") == file_hash
CheckCache(i) ==
    /\ futures[i].pc = "check_cache"
    /\ LET file == file_at(pdf_paths[i])
           found == cache[basename(file.path)]
       IN  futures' = [futures EXCEPT ![i].pc =
                          IF cfg.enable_cache /\ found.present /\ found.hash = file_hash_of(file)
                          THEN "read_cached" ELSE "load", ![i].at = 1]
    /\ UNCHANGED <<pipeline_vars, processing_stats, pdf_paths, parallel, cache, results,
                   batch_stats, main, extracted>>

\* _is_cached: return True, cache[filename].get("result"); and the return of
\* process_single_pdf with the cached result
ReadCached(i) ==
    /\ futures[i].pc = "read_cached"
    /\ futures' = [futures EXCEPT
                      ![i].pc = "finished",
                      ![i].result = success(cache[basename(pdf_paths[i])].result, TRUE)]
    /\ UNCHANGED <<pipeline_vars, processing_stats, pdf_paths, parallel, cache, results,
                   batch_stats, main, extracted>>

\* the left half of self.processing_stats[counter] += n: the value is read
LoadCounter(i) ==
    /\ futures[i].pc = "load"
    /\ futures' = [futures EXCEPT
                      ![i].pc = "store",
                      ![i].reg = processing_stats[counters_of(file_at(pdf_paths[i]).kind)
                                                                     [futures[i].at]]]
    /\ UNCHANGED <<pipeline_vars, processing_stats, pdf_paths, parallel, cache, results,
                   batch_stats, main, extracted>>

\* what extract_outline adds to the counter
increment(file, counter) ==
    IF counter = "total_headings" THEN Len(extracted[file.content].outline) ELSE 1

\* a variant in which every thread goes on to the cache after its counters
always_update(file) == "update_cache"

\* where a thread goes after its last counter: to the cache when
\* extract_outline has returned, to its end when extract_outline has raised
after_counters(file) == IF file.kind = "valid" THEN "update_cache" ELSE "finished"

\* the right half: the sum is written; after the last counter of a file that
\* cannot be extracted the exception reaches process_single_pdf, which
\* returns the error result
StoreCounter(i) ==
    /\ futures[i].pc = "store"
    /\ LET file == file_at(pdf_paths[i])
           counters == counters_of(file.kind)
           counter == counters[futures[i].at]
           last == futures[i].at = Len(counters)
       IN  /\ processing_stats' =
                 [processing_stats EXCEPT ![counter] = futures[i].reg + increment(file, counter)]
           /\ futures' = [futures EXCEPT
                             ![i].at = IF last THEN @ ELSE @ + 1,
                             ![i].pc = IF last THEN after_counters(file) ELSE "load",
                             ![i].result = IF last /\ after_counters(file) = "finished"
                                           THEN error_result ELSE @]
    /\ UNCHANGED <<pipeline_vars, pdf_paths, parallel, cache, results, batch_stats, main,
                   extracted>>

\* cache[filename] = {"hash": file_hash, "result": result, ...} and the
\* return of process_single_pdf with the extracted result
UpdateCache(i) ==
    /\ futures[i].pc = "update_cache"
    /\ LET file == file_at(pdf_paths[i])
       IN  /\ cache' = IF cfg.enable_cache
                       THEN [cache EXCEPT ![basename(file.path)] =
                                entry(file_hash_of(file), extracted[file.content])]
                       ELSE cache
           /\ futures' = [futures EXCEPT
                             ![i].pc = "finished",
                             ![i].result = success(extracted[file.content], FALSE)]
    /\ UNCHANGED <<pipeline_vars, processing_stats, pdf_paths, parallel, results,
                   batch_stats, main, extracted>>

\* a variant that counts the successes only
count_success(stats, result) ==
    IF result.status = "success" THEN [stats EXCEPT !.successful = @ + 1] ELSE stats

\* the statistics of the batch after a result
count_result(stats, result) ==
    IF result.status = "success"
    THEN [stats EXCEPT !.successful = @ + 1,
                       !.cached = IF result.cached THEN @ + 1 ELSE @]
    ELSE [stats EXCEPT !.failed = @ + 1]

\* the main thread takes a completed future (as_completed), or the result of
\* the call in the sequential loop: the result is appended and counted
CollectResult(i) ==
    /\ main = "collecting"
    /\ futures[i].pc = "finished"
    /\ results' = Append(results, [filename |-> basename(pdf_paths[i]), task |-> i,
                                   status |-> futures[i].result.status,
                                   cached |-> futures[i].result.cached,
                                   title |-> futures[i].result.title,
                                   outline |-> futures[i].result.outline])
    /\ batch_stats' = count_result(batch_stats, futures[i].result)
    /\ futures' = [futures EXCEPT ![i].pc = "collected"]
    /\ UNCHANGED <<pipeline_vars, processing_stats, pdf_paths, parallel, cache, main,
                   extracted>>

\* every path is done: the cache is saved and the output is returned
SaveCache ==
    /\ main = "collecting"
    /\ \A i \in 1..Len(pdf_paths) : futures[i].pc = "collected"
    /\ main' = "done"
    /\ UNCHANGED <<pipeline_vars, processing_stats, pdf_paths, parallel, cache, futures,
                   results, batch_stats, extracted>>

NextBatch ==
    \/ \E i \in 1..Len(pdf_paths) : StartTask(i)
    \/ \E i \in 1..Len(pdf_paths) : CheckCache(i)
    \/ \E i \in 1..Len(pdf_paths) : ReadCached(i)
    \/ \E i \in 1..Len(pdf_paths) : LoadCounter(i)
    \/ \E i \in 1..Len(pdf_paths) : StoreCounter(i)
    \/ \E i \in 1..Len(pdf_paths) : UpdateCache(i)
    \/ \E i \in 1..Len(pdf_paths) : CollectResult(i)
    \/ SaveCache

SpecBatch == InitBatch /\ [][NextBatch]_vars

\* ------------------------------------------------------------------------
\* The Deduplicator on its own: every list of up to MaxGroup candidates of
\* three texts, two of which differ by the case of their letters only
\* ------------------------------------------------------------------------
MaxGroup == 3

GroupKinds ==
    [text : {"Overview", "OVERVIEW", "Scope"}, level : {"H1"}, page : {0, 1},
     confidence : {400, 900}]

group_member(k, i) ==
    [text |-> k.text, level |-> k.level, page |-> k.page, font_size |-> 24,
     font |-> "Arial", confidence |-> k.confidence, src |-> i]

InitDedup ==
    /\ pc = "profiled"
    /\ outline \in {[i \in 1..Len(q) |-> group_member(q[i], i)] :
                       q \in UNION {[1..n -> GroupKinds] : n \in 0..MaxGroup}}
    /\ title = ""
    /\ cfg = default_config
    /\ pdf = <<>>
    /\ blocks = <<>>
    /\ font_stats = default_font_stats
    /\ doc_info = no_profile
    /\ flat_outline = <<>>
    /\ processing_stats = no_stats
    /\ probe = no_probe
    /\ answer = <<>>
    /\ no_batch

\* _remove_duplicates applied to the candidates
RemoveDuplicates ==
    /\ pc = "profiled"
    /\ answer' = remove_duplicates(outline)
    /\ pc' = "deduplicated"
    /\ UNCHANGED <<cfg, pdf, blocks, font_stats, outline, title, doc_info, flat_outline,
                   processing_stats, probe>>
    /\ UNCHANGED batch_vars

NextDedup == RemoveDuplicates

SpecDedup == InitDedup /\ [][NextDedup]_vars

\* ------------------------------------------------------------------------
\* The Strategy Selector at work (SpecSelect): extract_outline on documents
\* made of up to MaxSpans spans of SelectKinds, in the order of that list,
\* one below the other on the first page, and a form.  The short ones are
\* profiled simple (span_preferred), those with the body text standard
\* (hybrid).
\* ------------------------------------------------------------------------
MaxSpans == 5

select_sentence == "the rest of the day went by without any event at all. "

\* 439 characters when stripped
select_body ==
    select_sentence \o select_sentence \o select_sentence \o select_sentence
    \o select_sentence \o select_sentence \o select_sentence \o select_sentence

SelectKinds ==
    <<kind("Our plan", 24, 16), kind("Summary", 24, 16), kind("Alpha one", 24, 16),
      kind("Beta two", 24, 16), kind("Gamma three", 24, 16),
      kind("Hope To See You!", 24, 16), kind(select_body, 24, 0),
      kind(OtherDigit \o OtherDigit \o OtherDigit \o OtherDigit, 24, 16)>>

\* the members of SelectKinds at the places S, in the order of the list
kinds_at(S) ==
    [k \in 1..Cardinality(S) |->
        SelectKinds[CHOOSE i \in S : Cardinality({j \in S : j < i}) = k - 1]]

\* a short form with a bold keyword: profiled simple, it takes the form branch
select_form ==
    <<kind("Application Form", 24, 16), kind("Summary", 24, 16),
      kind("Name Designation Date Salary", 24, 0)>>

\* a hybrid document whose outlines both score 63/20 by the formula: 7 span
\* entries (7.0 * 0.3 * 1.5) against 8 block entries (10.5 * 0.3)
select_tie ==
    <<kind("Our plan", 24, 16), kind("Project Scope", 28, 0), kind("Delta four", 28, 16),
      kind("1. Introduction", 24, 16), kind("1.1 Beta", 26, 16), kind("Overview", 24, 16),
      kind("References", 26, 16), kind("1. Alpha", 24, 16)>>

SelectDocuments ==
    {make_pdf(kinds_at(S), "first", "down") :
        S \in {T \in SUBSET (1..Len(SelectKinds)) : Cardinality(T) <= MaxSpans}}
    \cup {make_pdf(select_form, "first", "down"), make_pdf(select_tie, "second", "down")}

InitSelect == pc = "idle" /\ Constructed

\* extract_outline, up to the extracted blocks
ExtractSelected ==
    /\ pc = "idle"
    /\ \E d \in SelectDocuments :
          /\ pdf' = d
          /\ blocks' = extract_text_blocks(d, cfg.custom_filters)
    /\ processing_stats' = [processing_stats EXCEPT !.total_files = @ + 1]
    /\ pc' = "blocks"
    /\ UNCHANGED <<cfg, font_stats, outline, title, doc_info, flat_outline, probe, answer>>
    /\ UNCHANGED batch_vars

NextSelect ==
    \/ ExtractSelected
    \/ AnalyzeFontStatistics
    \/ MultiPassHeadingDetection
    \/ ExtractTitle
    \/ PostProcessHeadings
    \/ SelectOutline

SpecSelect == InitSelect /\ [][NextSelect]_vars

\* ------------------------------------------------------------------------
\* The document profile on its own (SpecProfile): _analyze_document_type on
\* up to MaxProfileBlocks blocks of one text, or on a hundred and one, under
\* a title that names a form or does not
\* ------------------------------------------------------------------------
MaxProfileBlocks == 8

ProfileCounts == (0..MaxProfileBlocks) \cup {101}

\* 16 characters
profile_phrase == "and so on again "

\* 256 characters and 16384 characters
profile_page ==
    LET x2 == profile_phrase \o profile_phrase
        x4 == x2 \o x2
        x8 == x4 \o x4
    IN  x8 \o x8

profile_volume ==
    LET x4 == profile_page \o profile_page \o profile_page \o profile_page
        x16 == x4 \o x4 \o x4 \o x4
    IN  x16 \o x16 \o x16 \o x16

ProfileTexts ==
    {"Scope", "Name Designation Date Salary", "S.No and Amount", profile_phrase \o profile_phrase,
     "Name Designation Date Salary " \o profile_phrase \o profile_phrase \o profile_phrase,
     profile_page, profile_volume}

ProfileTitles == {"Application Form", "Annual Report"}

profile_block(text) ==
    [text |-> text, font_size |-> 24, font |-> "Arial", font_flags |-> 0,
     page |-> 0, bbox |-> <<72, 100, 300, 120>>]

InitProfile ==
    /\ pc = "profile"
    /\ \E n \in ProfileCounts, text \in ProfileTexts :
          blocks = [i \in 1..n |-> profile_block(text)]
    /\ title \in ProfileTitles
    /\ cfg = default_config
    /\ pdf = <<>>
    /\ font_stats = default_font_stats
    /\ outline = <<>>
    /\ doc_info = no_profile
    /\ flat_outline = <<>>
    /\ processing_stats = no_stats
    /\ probe = no_probe
    /\ answer = <<>>
    /\ no_batch

AnalyzeDocumentType ==
    /\ pc = "profile"
    /\ doc_info' = analyze_document_type(blocks, title)
    /\ pc' = "classified"
    /\ UNCHANGED <<cfg, pdf, blocks, font_stats, outline, title, flat_outline,
                   processing_stats, probe, answer>>
    /\ UNCHANGED batch_vars

NextProfile == AnalyzeDocumentType

SpecProfile == InitProfile /\ [][NextProfile]_vars

\* ------------------------------------------------------------------------
\* The consolidation of spans on its own (SpecSpans): the spans of a document
\* of up to MaxSpanList different spans of SpanKinds, in any order
\* ------------------------------------------------------------------------
MaxSpanList == 3

span_kind(text, size, flags, page, left, top, right, bottom) ==
    [text |-> text, size |-> size, font |-> "Arial", flags |-> flags, page |-> page,
     bbox |-> <<left, top, right, bottom>>]

\* words of one line, a word a point lower that starts to the left of them
\* and is taller, a word far to the right, a word on the next page, a word
\* that is not bold, and a word further down
SpanKinds ==
    {span_kind("Our", 24, 16, 0, 72, 100, 100, 120),
     span_kind("plan", 24, 16, 0, 105, 100, 140, 120),
     span_kind("!", 24, 16, 0, 141, 100, 145, 120),
     span_kind("next", 26, 16, 0, 10, 101, 60, 125),
     span_kind("far", 24, 16, 0, 400, 100, 450, 120),
     span_kind("Our", 24, 16, 1, 72, 100, 100, 120),
     span_kind("plain", 24, 0, 0, 150, 100, 190, 120),
     span_kind("low", 24, 16, 0, 72, 300, 100, 320)}

SpanLists ==
    UNION {{q \in [1..n -> SpanKinds] : \A i, j \in 1..n : q[i] = q[j] => i = j} :
              n \in 0..MaxSpanList}

InitSpans ==
    /\ pc = "spans"
    /\ pdf \in SpanLists
    /\ cfg = default_config
    /\ blocks = <<>>
    /\ font_stats = default_font_stats
    /\ outline = <<>>
    /\ title = ""
    /\ doc_info = no_profile
    /\ flat_outline = <<>>
    /\ processing_stats = no_stats
    /\ probe = no_probe
    /\ answer = <<>>
    /\ no_batch

\* the spans of the document, collected and consolidated
ConsolidateAdjacentSpans ==
    /\ pc = "spans"
    /\ answer' = consolidate_adjacent_spans(all_spans_of(pdf, cfg.custom_filters))
    /\ pc' = "consolidated"
    /\ UNCHANGED <<cfg, pdf, blocks, font_stats, outline, title, doc_info, flat_outline,
                   processing_stats, probe>>
    /\ UNCHANGED batch_vars

NextSpans == ConsolidateAdjacentSpans

SpecSpans == InitSpans /\ [][NextSpans]_vars

\* ------------------------------------------------------------------------
\* Properties of the extractor (Spec)
\* ------------------------------------------------------------------------
\* an outline whose levels deepen by at most one step from entry to entry
deepens_by_steps(q) ==
    \A n \in 1..(Len(q) - 1) : level_number(q[n + 1].level) <= level_number(q[n].level) + 1

\* an outline without two entries of the same lower-cased text, page and level
without_duplicates(q) ==
    \A m, n \in 1..Len(q) :
        m # n => heading_key(q[m].text, q[m].page, q[m].level)
                    # heading_key(q[n].text, q[n].page, q[n].level)

\* the top of the block an entry was taken from
source_top(h) == blocks[h.src].bbox[2]

\* C1: in every output of _post_process_headings and in every final outline
\* of extract_outline, the level of an entry is at most one greater than the
\* level of the entry before it.
C1_LevelsDeepenByOneStep ==
    /\ pc = "processed" => deepens_by_steps(outline)
    /\ pc = "done" => deepens_by_steps(flat_outline)

\* C2: no two entries of a post-processed outline, and no two entries of a
\* final outline, share the lower-cased text, the page and the level,
\* whichever of the block-level and span-level outlines is returned.
C2_NoDuplicateEntries ==
    /\ pc = "processed" => without_duplicates(outline)
    /\ pc = "done" => without_duplicates(flat_outline)

\* two blocks of the same text were detected as headings at different levels,
\* and the final outline keeps other headings beside the one that is left
C2_Witness ==
    /\ pc = "done"
    /\ Len(flat_outline) >= 2
    /\ \E i, j \in 1..Len(blocks) :
          i # j /\ lower(blocks[i].text) = lower(blocks[j].text)
               /\ \E n \in 1..Len(flat_outline) : flat_outline[n].src \in {i, j}

\* the final outline is the span-level one and differs from the block-level
\* one, in a document where two spans of the same text were headings
C2_SpanWitness ==
    /\ pc = "done"
    /\ Len(flat_outline) >= 2
    /\ flat_outline # build_flat_outline(outline)
    /\ \E i, j \in 1..Len(blocks) :
          /\ i # j
          /\ lower(blocks[i].text) = lower(blocks[j].text)
          /\ is_span_heading(blocks[i].text, <<blocks[i].font_size, 1>>, blocks[i].font,
                             blocks[i].bbox, font_stats, blocks[i].font_flags).is_heading
          /\ is_span_heading(blocks[j].text, <<blocks[j].font_size, 1>>, blocks[j].font,
                             blocks[j].bbox, font_stats, blocks[j].font_flags).is_heading

\* the title holds "application" and the text of the blocks holds at least
\* four of the field words
form_case ==
    /\ contains(lower(title), "application")
    /\ count_words_in(join_lower(blocks), form_fields) >= 4

\* C5: when the title contains "application" and the text of the document
\* contains at least 4 of the field words, the document is profiled as a form
\* with the strategy minimal, and the final outline is empty.
C5_FormsGetAnEmptyOutline ==
    (pc = "done" /\ form_case) =>
        /\ doc_info.type = "form"
        /\ doc_info.recommended_strategy = "minimal"
        /\ flat_outline = <<>>

\* the document of three blocks of 20, 16 and 13 points
numbered_case ==
    /\ Len(blocks) = 3
    /\ \A i \in 1..3 : /\ blocks[i].text = numbered_corpus[i].text
                       /\ blocks[i].font_size = numbered_corpus[i].size

\* C6: for the blocks "1. Introduction", "1.1 Background" and "1.1.1 Detail"
\* of 20, 16 and 13 points, detection accepts the three blocks, in that order,
\* at the levels H1, H2 and H3.
C6_NumberedSectionsAreAccepted ==
    (pc = "detected" /\ numbered_case) =>
        /\ Len(outline) = 3
        /\ \A i \in 1..3 : /\ outline[i].src = i
                           /\ outline[i].text = numbered_corpus[i].text
                           /\ outline[i].level = level_name(i)

\* the noise-pattern lists and font sizes the classifier is asked with
NoisePatternLists == {<<>>, <<"overview">>, default_noise_patterns, span_noise_patterns}
NoiseFontSizes == {0, 24, 400}

C10_OutlineInReadingOrder ==
    pc = "done" =>
        \A n \in 1..(Len(flat_outline) - 1) :
            ~key_less(<<flat_outline[n + 1].page, source_top(flat_outline[n + 1])>>,
                      <<flat_outline[n].page, source_top(flat_outline[n])>>)

\* ------------------------------------------------------------------------
\* Properties of the Font Statistics Analyzer (SpecFont)
\* ------------------------------------------------------------------------
\* C3: for every list of blocks, the thresholds of analyze_font_statistics
\* are ordered: h1 >= h2 >= h3.
C3_ThresholdsAreOrdered ==
    pc = "analyzed" => font_stats.h1 >= font_stats.h2 /\ font_stats.h2 >= font_stats.h3

\* ------------------------------------------------------------------------
\* Properties of the Confidence Scorer (SpecScore)
\* ------------------------------------------------------------------------
\* a bold block of 24 points on page 0, 50 points from the top, in a corpus
\* whose median is 12 points
bold_double_size ==
    /\ probe.font_size = 48
    /\ probe.font_flags = 16
    /\ probe.page = 0
    /\ probe.bbox[2] = 50
    /\ font_stats.median = 12 * font_stats.den

\* C7, as stated: for every corpus of median 12 and every text, the bold block
\* of 24 points at the top of page 0 is scored H1 with a confidence of at
\* least 0.7.
C7_BoldDoubleSizeIsH1 ==
    (pc = "scored" /\ bold_double_size) =>
        answer.level = "H1" /\ answer.confidence >= 700

\* the numbering of the text, if it has one, is one of level H1
numbering_keeps_h1(text) ==
    IF first_match(chapter_patterns, lower(text)) > 0
    THEN chapter_patterns[first_match(chapter_patterns, lower(text))].level = "H1"
    ELSE first_match(numbered_patterns, text) > 0 =>
            numbered_patterns[first_match(numbered_patterns, text)].level = "H1"

\* a text that no step of the scorer moves away from the level of its font
keeps_font_level(text) ==
    /\ first_search(form_field_patterns, lower(text)) = 0
    /\ numbering_keeps_h1(text)
    /\ ~endswith(text, ":")
    /\ word_count(text) <= 15

\* C7, amended: the bold block of 24 points at the top of page 0 is scored H1
\* with a confidence of at least 0.7 when 24 points reach the h1 threshold of
\* the corpus and the text has at most 15 words, does not end with a colon,
\* holds no form-field word, and carries no numbering of level H2 or H3.
C7_BoldDoubleSizeIsH1_Amended ==
    (/\ pc = "scored"
     /\ bold_double_size
     /\ size_over(probe.font_size, font_stats) >= font_stats.h1
     /\ keeps_font_level(probe.text)) =>
        answer.level = "H1" /\ answer.confidence >= 700

\* the scorer has scored such a block, with a numbering of level H1
C7_Witness ==
    /\ pc = "scored"
    /\ bold_double_size
    /\ size_over(probe.font_size, font_stats) >= font_stats.h1
    /\ keeps_font_level(probe.text)
    /\ probe.text = "1. Introduction"
    /\ answer.level = "H1"
    /\ answer.confidence >= 700

\* ------------------------------------------------------------------------
\* Properties of the Hierarchy Validator (SpecPost) and of the Deduplicator
\* (SpecDedup)
\* ------------------------------------------------------------------------
\* C4: _post_process_headings applied to its own output returns that output
\* unchanged: the same entries, in the same order, at the same levels.
C4_PostProcessingIsIdempotent ==
    pc = "reprocessed" => answer = outline

\* the entries of q whose text is that of h, the case of the letters apart
same_text_in(q, h) == {n \in 1..Len(q) : lower(q[n].text) = lower(h.text)}

\* C9: _remove_duplicates keeps exactly one entry of every group of entries
\* of the same case-insensitive text, and the entry it keeps has the greatest
\* confidence of its group.
C9_DedupKeepsTheMostConfident ==
    pc = "deduplicated" =>
        /\ \A i \in 1..Len(outline) : Cardinality(same_text_in(answer, outline[i])) = 1
        /\ \A n \in 1..Len(answer) :
              /\ \E i \in 1..Len(outline) : outline[i] = answer[n]
              /\ \A i \in same_text_in(outline, answer[n]) :
                    outline[i].confidence <= answer[n].confidence

\* two candidates of the same text on the same page, the first of confidence
\* 0.4 and the second of 0.9, and only the second is left
C9_Witness ==
    /\ pc = "deduplicated"
    /\ Len(outline) = 2
    /\ outline[1].text = outline[2].text
    /\ outline[1].page = outline[2].page
    /\ outline[1].confidence = 400
    /\ outline[2].confidence = 900
    /\ answer = <<outline[2]>>

\* C18: _validate_hierarchy returns the same entries in the same order; the
\* level of the first entry is unchanged, the level of every later entry is
\* the smaller of its own level and the level before it plus one; so the
\* levels deepen by at most one step and no entry is made deeper.
C18_ValidationClampsToOneStep ==
    pc = "validated" =>
        /\ Len(answer) = Len(outline)
        /\ \A n \in 1..Len(outline) :
              /\ answer[n] = [outline[n] EXCEPT !.level = answer[n].level]
              /\ level_number(answer[n].level) <= level_number(outline[n].level)
              /\ level_number(answer[n].level) =
                    IF n = 1 THEN level_number(outline[n].level)
                    ELSE Min2(level_number(outline[n].level),
                              level_number(answer[n - 1].level) + 1)
        /\ deepens_by_steps(answer)

\* an H3 opens the list and keeps its level, and an H3 behind an H1 is
\* clamped to H2
C18_Witness ==
    /\ pc = "validated"
    /\ Len(outline) = 3
    /\ outline[1].level = "H3" /\ outline[2].level = "H1" /\ outline[3].level = "H3"
    /\ answer[1].level = "H3" /\ answer[2].level = "H1" /\ answer[3].level = "H2"

\* the candidates lie in the order of their pages, as the sort leaves them
sorted_by_page(q) == \A n \in 1..(Len(q) - 1) : q[n].page <= q[n + 1].page

\* C19: _remove_duplicates returns the entries it keeps in the order they had
\* in its sorted input, also when the entry kept of a repeated text is not
\* the first of that text.
C19_DedupKeepsTheOrder ==
    (pc = "deduplicated" /\ sorted_by_page(outline)) =>
        \A m, n \in 1..Len(answer) : m < n => answer[m].src < answer[n].src

\* the threshold that goes with the number of blocks of a whole document
threshold_of_document(document) ==
    IF Len(document) > 100 THEN 500 ELSE IF Len(document) > 50 THEN 400 ELSE 300

\* C16: the base threshold Pass 1 applies to a block is the one that goes
\* with the number of blocks of the whole document: 0.5 above 100 blocks, 0.4
\* above 50, 0.3 otherwise.
C16_ThresholdByDocumentSize ==
    \A i \in 1..Len(blocks) : base_threshold(context_of(blocks, i)) = threshold_of_document(blocks)

\* C17: Pass 2 adds candidates only when Pass 1 found fewer than 3 in a
\* document of more than 5000 characters, fewer than 2 in one of more than
\* 1000, fewer than 1 otherwise; the candidates of Pass 1 are an unchanged prefix of
\* the output, and no appended candidate has the lower-cased text of a
\* candidate before it in the output.
C17_Pass2OnlyAppends ==
    pc = "detected" =>
        LET first == answer.outline
            chars == total_chars_of(blocks)
            minimum == IF chars > 5000 THEN 3 ELSE IF chars > 1000 THEN 2 ELSE 1
        IN  /\ Len(first) <= Len(outline)
            /\ SubSeq(outline, 1, Len(first)) = first
            /\ Len(outline) > Len(first) => Len(first) < minimum
            /\ \A n \in (Len(first) + 1)..Len(outline) :
                  /\ outline[n].text = blocks[outline[n].src].text
                  /\ \A m \in 1..(n - 1) : lower(outline[m].text) # lower(outline[n].text)

\* two headings found by Pass 1 in a document of more than 5000 characters,
\* and Pass 2 appends a third
C17_Witness ==
    /\ pc = "detected"
    /\ total_chars_of(blocks) > 5000
    /\ Len(answer.outline) = 2
    /\ Len(outline) = 3
    /\ outline[3].text = "Go"

file_of(i) == file_at(pdf_paths[i])

done(i) == futures[i].pc \in {"finished", "collected"}

\* C12: in a parallel batch the cache is written only when the workers have
\* completed: whenever the cache changes, no worker other than the one that
\* writes is still at work.
C12_SingleWriterAfterJoin ==
    [][(in_pool /\ cache' # cache) =>
          Cardinality({j \in 1..Len(pdf_paths) : running(j)}) <= 1]_vars

\* C13: the workers of a batch lose none of each other's writes to the
\* state they share besides the cache: when the batch is over the extractor
\* has counted one file for every call of extract_outline, one success for
\* every extracted file, and the headings of every outline it returned.
C13_NoLostUpdates ==
    main = "done" =>
        LET calls == {n \in 1..Len(results) : ~results[n].cached}
            extractions == {n \in calls : results[n].status = "success"}
        IN  /\ processing_stats.total_files = Cardinality(calls)
            /\ processing_stats.successful_extractions = Cardinality(extractions)
            /\ processing_stats.total_headings =
                  SumSeq([n \in 1..Len(results) |->
                             IF n \in extractions THEN Len(results[n].outline) ELSE 0])

\* C14: a document that fails writes no cache entry and changes no entry of
\* another key; a document fails exactly when its own file cannot be
\* extracted; and beside failing documents only, a document that can be
\* extracted gets the title and the outline of its own content.
C14_FailuresAreIsolated ==
    /\ [](\A i \in 1..Len(pdf_paths) :
            done(i) =>
               /\ futures[i].result.status = "error" <=> file_of(i).kind # "valid"
               /\ (/\ file_of(i).kind = "valid"
                   /\ \A j \in 1..Len(pdf_paths) : j # i => file_of(j).kind # "valid")
                  => /\ futures[i].result.title = extracted[file_of(i).content].title
                     /\ futures[i].result.outline = extracted[file_of(i).content].outline)
    /\ [][\A i \in 1..Len(pdf_paths) :
             (file_of(i).kind # "valid" /\ futures'[i] # futures[i]) => cache' = cache]_vars

\* a parallel batch of a file that validate_pdf rejects and a file that is
\* extracted: one error, one success, and a cache entry for the second only
C14_Witness ==
    /\ main = "done"
    /\ in_pool
    /\ pdf_paths = <<"in/b.pdf", "in/sub/a.pdf">>
    /\ futures[1].result.status = "error"
    /\ futures[2].result.status = "success" /\ ~futures[2].result.cached
    /\ futures[2].result.outline # <<>>
    /\ ~cache["b.pdf"].present
    /\ cache["a.pdf"] = entry("md5 of numbered", extracted["numbered"])

\* C15: when process_pdfs_advanced is over, in either mode, there is one
\* result for each path, each a success or an error, an error with an empty
\* title and an empty outline; successful + failed = total_files, the number
\* of paths, and cached <= successful.
C15_OneResultPerPath ==
    main = "done" =>
        /\ Len(results) = Len(pdf_paths)
        /\ \A i \in 1..Len(pdf_paths) :
              Cardinality({n \in 1..Len(results) : results[n].task = i}) = 1
        /\ \A n \in 1..Len(results) :
              /\ results[n].status \in {"success", "error"}
              /\ results[n].filename = basename(pdf_paths[results[n].task])
              /\ results[n].status = "error" =>
                    results[n].title = "" /\ results[n].outline = <<>>
        /\ batch_stats.total_files = Len(pdf_paths)
        /\ batch_stats.successful + batch_stats.failed = batch_stats.total_files
        /\ batch_stats.cached <= batch_stats.successful
        /\ batch_stats.successful =
              Cardinality({n \in 1..Len(results) : results[n].status = "success"})
        /\ batch_stats.cached = Cardinality({n \in 1..Len(results) : results[n].cached})

\* a parallel batch of a file whose result is in the cache and a file that
\* fails, collected in the opposite order: one cached success and one error
C15_Witness ==
    /\ main = "done"
    /\ in_pool
    /\ Len(results) = 2
    /\ results[1].task = 2 /\ results[1].status = "error"
    /\ results[2].task = 1 /\ results[2].status = "success" /\ results[2].cached
    /\ batch_stats = [total_files |-> 2, successful |-> 1, failed |-> 1, cached |-> 1]

\* C20: each file has a cache entry of its own: when the batch is over, the
\* entry of every file that was extracted or served from the cache carries
\* the hash of that file and the result returned for it, so no other file of
\* the batch has read or overwritten it.
C20_EveryFileHasItsEntry ==
    main = "done" =>
        \A n \in 1..Len(results) :
            results[n].status = "success" =>
                LET found == cache[results[n].filename]
                IN  /\ found.present
                    /\ found.hash = file_hash_of(file_of(results[n].task))
                    /\ found.result.title = results[n].title
                    /\ found.result.outline = results[n].outline

\* ------------------------------------------------------------------------
\* Properties of the Strategy Selector (SpecSelect)
\* ------------------------------------------------------------------------
\* the two outlines the selector chooses between, for the document at hand
span_level_outline ==
    build_flat_outline(post_process_headings(
        extract_span_level_headings(pdf, font_stats, cfg.custom_filters), title, font_stats))

block_level_outline == build_flat_outline(outline)

\* the selector has run: the document is done and did not take the form branch
selector_applied == pc = "done" /\ ~is_form_document(blocks, title)

\* at least 30% of the entries that are no numbers hold a word of the list
keyword_share_reached(q) ==
    LET non_numeric == {n \in 1..Len(q) : ~isdigit(q[n].text)}
        matching == {n \in non_numeric : any_in(lower(q[n].text), meaningful_patterns)}
    IN  /\ non_numeric # {}
        /\ 10 * Cardinality(matching) >= 3 * Cardinality(non_numeric)

\* C21: under the span_preferred strategy the selector returns the span-level
\* outline exactly when at least 30% of its non-numeric entries match the
\* keyword list, and the block-level outline, unchanged, otherwise.
C21_SpanPreferredByKeywordShare ==
    (selector_applied /\ doc_info.recommended_strategy = "span_preferred") =>
        IF keyword_share_reached(span_level_outline)
        THEN flat_outline = span_level_outline
        ELSE flat_outline = block_level_outline

\* the entries that are no numbers and hold a word of the list are at least
\* 30% of all the entries, the numbers among them, and at least one
keyword_share_of_all(q) ==
    LET matching == {n \in 1..Len(q) : /\ ~isdigit(q[n].text)
                                       /\ any_in(lower(q[n].text), meaningful_patterns)}
    IN  /\ matching # {}
        /\ 10 * Cardinality(matching) >= 3 * Len(q)

\* C21 (amended): under the span_preferred strategy the selector returns the
\* span-level outline exactly when its non-numeric entries that match the
\* keyword list are at least 30% of all its entries, numeric ones included,
\* and the block-level outline, unchanged, otherwise.
C21_SpanPreferredByKeywordShare_Amended ==
    (selector_applied /\ doc_info.recommended_strategy = "span_preferred") =>
        IF keyword_share_of_all(span_level_outline)
        THEN flat_outline = span_level_outline
        ELSE flat_outline = block_level_outline

\* a simple document whose span-level outline has three entries, one of them
\* a keyword and one a number: a share of one third of all entries, the
\* span-level outline is returned and differs from the block-level one
C21_Witness ==
    /\ selector_applied
    /\ doc_info.recommended_strategy = "span_preferred"
    /\ Len(span_level_outline) = 3
    /\ \E n \in 1..3 : isdigit(span_level_outline[n].text)
    /\ Cardinality({n \in 1..3 : any_in(lower(span_level_outline[n].text),
                                        meaningful_patterns)}) = 1
    /\ flat_outline = span_level_outline
    /\ flat_outline # block_level_outline

\* a simple document whose span-level outline has four entries, one of them a
\* keyword and one a number: a third of the entries that are no numbers, a
\* quarter of all, and the block-level outline is returned
C21_FallbackWitness ==
    /\ selector_applied
    /\ doc_info.recommended_strategy = "span_preferred"
    /\ Len(span_level_outline) = 4
    /\ Cardinality({n \in 1..4 : isdigit(span_level_outline[n].text)}) = 1
    /\ Cardinality({n \in 1..4 : any_in(lower(span_level_outline[n].text),
                                        meaningful_patterns)}) = 1
    /\ flat_outline = block_level_outline
    /\ flat_outline # span_level_outline

\* the score of an outline by the formula, exactly, in two-hundredths:
\* 0.5 * count + 2 [H1] + 1 [H2] + 0.5 [H3] + 1 per structural entry, times
\* 0.3 above 80% of the blocks, times 1.5 (span, corpus under 1000) or 1.2
\* (block, corpus over 5000), plus 3 for an invitation in a span outline
score_by_formula(q, method) ==
    LET has_level(l) == \E n \in 1..Len(q) : q[n].level = l
        structural == Cardinality({n \in 1..Len(q) :
                          any_in(lower(q[n].text), structural_patterns)})
        halves == Len(q) + (IF has_level("H1") THEN 4 ELSE 0)
                + (IF has_level("H2") THEN 2 ELSE 0) + (IF has_level("H3") THEN 1 ELSE 0)
                + 2 * structural
        tenths == IF 10 * Len(q) > 8 * Len(blocks) THEN 3 ELSE 10
        chars == total_chars_of(blocks)
        twentieths == IF chars < 1000 /\ method = "span" THEN 30
                      ELSE IF chars > 5000 /\ method = "block" THEN 24
                      ELSE 20
        invitation == /\ method = "span"
                      /\ \E n \in 1..Len(q) : \/ contains(lower(q[n].text), "hope")
                                               \/ contains(lower(q[n].text), "see you")
    IN  IF Len(q) = 0 THEN 0
        ELSE (halves * tenths * twentieths) \div 2 + (IF invitation THEN 600 ELSE 0)

\* C22: under the hybrid strategy the selector returns the span-level outline
\* when its score by the formula is strictly higher than the score of the
\* block-level outline, and the block-level outline otherwise; an empty
\* outline scores by the formula too, and the outline returned is unchanged.
C22_HybridPicksHigherScore ==
    (selector_applied /\ doc_info.recommended_strategy = "hybrid") =>
        IF score_by_formula(span_level_outline, "span")
              > score_by_formula(block_level_outline, "block")
        THEN flat_outline = span_level_outline
        ELSE flat_outline = block_level_outline

\* a hybrid document whose two outlines differ and score the same by the
\* formula, and the span-level outline is returned
C22_TieWitness ==
    /\ selector_applied
    /\ doc_info.recommended_strategy = "hybrid"
    /\ Len(span_level_outline) > 0
    /\ score_by_formula(span_level_outline, "span")
          = score_by_formula(block_level_outline, "block")
    /\ flat_outline = span_level_outline
    /\ flat_outline # block_level_outline

\* a hybrid document whose span-level outline scores strictly higher and is
\* returned
C22_SpanWitness ==
    /\ selector_applied
    /\ doc_info.recommended_strategy = "hybrid"
    /\ Len(block_level_outline) > 0
    /\ score_by_formula(span_level_outline, "span")
          > score_by_formula(block_level_outline, "block")
    /\ flat_outline = span_level_outline
    /\ flat_outline # block_level_outline

\* apart from equal scores, the selector follows the formula
C22_HigherScoreApartFromTies ==
    (/\ selector_applied
     /\ doc_info.recommended_strategy = "hybrid"
     /\ score_by_formula(span_level_outline, "span")
           # score_by_formula(block_level_outline, "block")) =>
        IF score_by_formula(span_level_outline, "span")
              > score_by_formula(block_level_outline, "block")
        THEN flat_outline = span_level_outline
        ELSE flat_outline = block_level_outline

\* ------------------------------------------------------------------------
\* Properties of the document profile (SpecProfile)
\* ------------------------------------------------------------------------
\* the rules in their order: the type of the first that matches
first_matching_rule(chars, n, form) ==
    IF chars < 400 /\ n < 6 THEN "simple"
    ELSE IF chars > 15000 \/ n > 100 THEN "complex"
    ELSE IF form THEN "form"
    ELSE IF n >= 6 /\ chars > 1000 THEN "standard"
    ELSE IF n = 6 /\ chars < 500 THEN "flyer"
    ELSE "standard"

\* C23: _analyze_document_type returns the type of the first matching rule
\* in the order simple, complex, form, standard, flyer, else standard, for the
\* total of characters, the number of blocks and the form detection at hand;
\* the type is one of the five, and the strategy is minimal exactly when the
\* type is form.
C23_FirstMatchingRule ==
    pc = "classified" =>
        /\ doc_info.type = first_matching_rule(total_chars_of(blocks), Len(blocks),
                                                is_form_document(blocks, title))
        /\ doc_info.type \in {"simple", "complex", "form", "standard", "flyer"}
        /\ doc_info.recommended_strategy = "minimal" <=> doc_info.type = "form"

\* a form by its title and fields that is short, and so classified simple
C23_Witness ==
    /\ pc = "classified"
    /\ doc_info.type = "simple"
    /\ doc_info.recommended_strategy = "span_preferred"
    /\ is_form_document(blocks, title)

\* a form classified form, a flyer, a document that is complex by its
\* characters alone, and a standard document of either strategy
C23_FormWitness ==
    pc = "classified" /\ doc_info.type = "form" /\ doc_info.recommended_strategy = "minimal"

C23_FlyerWitness == pc = "classified" /\ doc_info.type = "flyer"

C23_ComplexWitness ==
    pc = "classified" /\ doc_info.type = "complex" /\ doc_info.total_blocks <= 100

C23_StandardWitness ==
    pc = "classified" /\ doc_info.type = "standard"
       /\ doc_info.recommended_strategy = "block_preferred"

C23_HybridWitness ==
    pc = "classified" /\ doc_info.type = "standard" /\ doc_info.recommended_strategy = "hybrid"

\* ------------------------------------------------------------------------
\* Properties of the confidences (SpecDetect)
\* ------------------------------------------------------------------------
\* what calculate_heading_confidence returns for a probe, with the blocks
\* around it or without, under the statistics of the document at hand
probe_score(p, context_blocks) ==
    calculate_heading_confidence(p.text, p.font_size, p.font, p.bbox, font_stats,
                                 p.font_flags, context_blocks, cfg.structural_words)

\* the sum of the steps for a probe before the minimum of the last line
probe_sum(p) ==
    shape_steps(content_steps(font_score(size_over(p.font_size, font_stats),
                                         is_bold_font(p.font, p.font_flags), font_stats),
                              p.text, lower(p.text), cfg.structural_words),
                p.text, p.bbox, <<>>, font_stats)

\* the probe is large and not bold: the scorer returns early
returns_early(p) ==
    /\ ratio_over(size_over(p.font_size, font_stats), 18, font_stats)
    /\ ~is_bold_font(p.font, p.font_flags)

\* C24: every candidate the multi-pass detector returns carries a confidence
\* from 0 to 1, and calculate_heading_confidence returns no confidence above
\* 1, neither from its early return nor from its last line.
C24_ConfidenceWithinUnitRange ==
    pc = "detected" =>
        /\ \A n \in 1..Len(outline) :
              outline[n].confidence >= 0 /\ outline[n].confidence <= 1000
        /\ \A p \in Probes : \A context_blocks \in {<<>>, context_of(blocks, 1)} :
              probe_score(p, context_blocks).confidence <= 1000

\* a document with a candidate of each pass, whose statistics make one probe
\* add up to more than 1 before the minimum and another return early
C24_Witness ==
    /\ pc = "detected"
    /\ \E n \in 1..Len(outline) : outline[n].confidence = 800
    /\ \E n \in 1..Len(outline) :
          outline[n].confidence # 800 /\ outline[n].confidence \in 0..1000
    /\ \E p \in Probes : /\ ~returns_early(p)
                          /\ probe_sum(p).confidence > 1000
                          /\ probe_score(p, <<>>).confidence = 1000
    /\ \E p \in Probes : returns_early(p) /\ probe_score(p, <<>>).confidence > 0

\* ------------------------------------------------------------------------
\* Properties of large text that is not bold (SpecScore)
\* ------------------------------------------------------------------------
\* the probe is not bold and its size is more than 1.8 times the median
large_and_plain ==
    /\ ~is_bold_font(probe.font, probe.font_flags)
    /\ IF font_stats.median > 0
       THEN 10 * size_over(probe.font_size, font_stats) > 18 * font_stats.median
       ELSE FALSE

\* the score of the size tier of the probe, in thousandths
size_tier ==
    LET size == size_over(probe.font_size, font_stats)
    IN  IF size >= font_stats.h1 THEN 400
        ELSE IF size >= font_stats.h2 THEN 300
        ELSE IF size >= font_stats.h3 THEN 250
        ELSE -100

\* C25: for a block that is not bold and more than 1.8 times the median in
\* size, calculate_heading_confidence returns the level H3 and 0.3 times the
\* score of the size tier, or 0 when that is negative, whatever the text, the
\* place and the blocks around it are.
C25_LargePlainTextIsH3 ==
    (pc = "scored" /\ large_and_plain) =>
        LET expected == [confidence |-> IF size_tier < 0 THEN 0 ELSE (3 * size_tier) \div 10,
                         level |-> "H3"]
        IN  /\ answer = expected
            /\ calculate_heading_confidence(probe.text, probe.font_size, probe.font,
                   probe.bbox, font_stats, probe.font_flags, blocks,
                   cfg.structural_words) = expected

\* a large numbered heading at the top of the page that is not bold, whose
\* steps would add up to more and to the level H1, is returned as H3 with
\* 0.3 times the score of its size tier
C25_Witness ==
    /\ pc = "scored"
    /\ large_and_plain
    /\ probe.text = "1. Introduction"
    /\ probe.bbox[2] = 50
    /\ size_tier > 0
    /\ probe_sum(probe).level = "H1"
    /\ probe_sum(probe).confidence > 1000
    /\ answer = [confidence |-> (3 * size_tier) \div 10, level |-> "H3"]

\* such a block below every threshold of its corpus is returned with 0
C25_ClampWitness ==
    /\ pc = "scored"
    /\ large_and_plain
    /\ size_tier < 0
    /\ answer = [confidence |-> 0, level |-> "H3"]

\* ------------------------------------------------------------------------
\* Properties of the boldness rule (SpecScore)
\* ------------------------------------------------------------------------
\* the probe is bold, and its size is in the h2 tier of the corpus
bold_in_h2_tier ==
    /\ is_bold_font(probe.font, probe.font_flags)
    /\ size_over(probe.font_size, font_stats) >= font_stats.h2
    /\ size_over(probe.font_size, font_stats) < font_stats.h1

\* the score of the probe after the size and the boldness steps
after_boldness ==
    font_score(size_over(probe.font_size, font_stats),
               is_bold_font(probe.font, probe.font_flags), font_stats)

\* no later step of the scorer sets the level by a form field, a chapter or
\* a numbering
level_left_alone(text) ==
    /\ first_search(form_field_patterns, lower(text)) = 0
    /\ first_match(chapter_patterns, lower(text)) = 0
    /\ first_match(numbered_patterns, text) = 0

\* C29: the boldness rule never raises H2 to H1: a bold block in the h2 tier
\* has the confidence 0.6 after the bold bonus, which is not more than 0.6,
\* and stays H2; after the boldness step the level is H1 only if the size
\* tier gave H1.  The level returned is H2 then, unless a later step sets it.
C29_BoldNeverRaisesH2ToH1 ==
    pc = "scored" =>
        /\ bold_in_h2_tier => after_boldness = [confidence |-> 600, level |-> "H2"]
        /\ after_boldness.level = "H1" =>
              size_over(probe.font_size, font_stats) >= font_stats.h1
        /\ (bold_in_h2_tier /\ level_left_alone(probe.text)) => answer.level = "H2"

\* a bold block of 16 points in the h2 tier of its corpus, scored H2
C29_Witness ==
    /\ pc = "scored"
    /\ bold_in_h2_tier
    /\ level_left_alone(probe.text)
    /\ after_boldness = [confidence |-> 600, level |-> "H2"]
    /\ answer.level = "H2"
    /\ answer.confidence > 600

\* ------------------------------------------------------------------------
\* Properties of the length limits (SpecDetect)
\* ------------------------------------------------------------------------
\* the text has the configured number of characters at least, and at most
\* the configured number of words or the raised number of its exception
within_length_limits(text) ==
    /\ Len(text) >= cfg.min_heading_length
    /\ word_count(text) <= max_words_of(cfg, text, lower(text))

\* C28: every heading that block-level detection returns, from Pass 1 or
\* from Pass 2, has at least min_heading_length characters and at most
\* max_heading_length words, or the raised number of the word-count
\* exceptions.
C28_LengthLimitsBoundEveryEntry ==
    pc = "detected" => \A n \in 1..Len(outline) : within_length_limits(outline[n].text)

\* the headings of Pass 1 are within the limits
C28_Pass1WithinLimits ==
    pc \in {"first_pass", "detected"} =>
        \A n \in 1..Len(answer.outline) : within_length_limits(answer.outline[n].text)

\* Pass 2 has returned a heading of two characters
C28_ShortHeadingWitness ==
    /\ pc = "detected"
    /\ \E n \in (Len(answer.outline) + 1)..Len(outline) :
          Len(outline[n].text) < cfg.min_heading_length

\* ------------------------------------------------------------------------
\* Properties of the statistics (SpecStats)
\* ------------------------------------------------------------------------
\* C27: between the calls of extract_outline on one extractor, whatever calls
\* have returned or raised, the successful and the failed extractions add up
\* to the files.
C27_SuccessesAndFailuresAddUp ==
    pc = "ready" =>
        processing_stats.successful_extractions + processing_stats.failed_extractions
            = processing_stats.total_files

\* the failures counted are never fewer than the calls that have not returned
C27_NoFailureIsMissed ==
    pc = "ready" =>
        /\ processing_stats.successful_extractions = Len(answer)
        /\ processing_stats.failed_extractions
              >= processing_stats.total_files - Len(answer)

\* one call has returned, one has raised, and two failures are counted
C27_CountedTwiceWitness ==
    /\ pc = "ready"
    /\ processing_stats.total_files = 2
    /\ processing_stats.successful_extractions = 1
    /\ processing_stats.failed_extractions = 2

\* ------------------------------------------------------------------------
\* Properties of the consolidation of spans (SpecSpans)
\* ------------------------------------------------------------------------
\* the spans handed to consolidate_adjacent_spans, sorted by page, top and
\* left, the spans of the same place in the order they were given
spans_in_order == sort_spans(all_spans_of(pdf, cfg.custom_filters))

\* the place in spans_in_order where the group of answer[k] starts, and the
\* group: as many spans from there as went into answer[k]
group_start(k) == 1 + SumSeq([m \in 1..(k - 1) |-> answer[m].size[2]])

group_of(k) == SubSeq(spans_in_order, group_start(k), group_start(k) + answer[k].size[2] - 1)

\* the least and the greatest of a set of numbers
least(S) == CHOOSE x \in S : \A y \in S : x <= y

greatest(S) == CHOOSE x \in S : \A y \in S : x >= y

\* the smallest box around the boxes of the spans of a group
union_of_boxes(group) ==
    <<least({group[n].bbox[1] : n \in 1..Len(group)}),
      least({group[n].bbox[2] : n \in 1..Len(group)}),
      greatest({group[n].bbox[3] : n \in 1..Len(group)}),
      greatest({group[n].bbox[4] : n \in 1..Len(group)})>>

\* C26: the bounding box of every span that consolidate_adjacent_spans
\* returns is the union of the bounding boxes of the spans of its group: the
\* least left and top, the greatest right and bottom.
C26_BoxIsUnionOfGroup ==
    pc = "consolidated" =>
        \A k \in 1..Len(answer) : answer[k].bbox = union_of_boxes(group_of(k))

\* the box returned is the left, top and bottom of the first span of the
\* group and the right of the last
C26_BoxOfFirstAndLast ==
    pc = "consolidated" =>
        \A k \in 1..Len(answer) :
            LET group == group_of(k)
            IN  answer[k].bbox = <<group[1].bbox[1], group[1].bbox[2],
                                   group[Len(group)].bbox[3], group[1].bbox[4]>>

\* a group of two spans whose box is not the union: its right edge is left
\* of its left edge
C26_InvertedBoxWitness ==
    /\ pc = "consolidated"
    /\ \E k \in 1..Len(answer) : /\ answer[k].size[2] = 2
                                  /\ answer[k].bbox[3] < answer[k].bbox[1]
                                  /\ answer[k].bbox # union_of_boxes(group_of(k))

\* C30: consolidate_adjacent_spans returns for every list of spans, after
\* no more rounds of its loop than there are spans, one for each span it
\* returns, and what it returns is a partition of the spans, sorted by page, top and left, into
\* groups of neighbours: the groups follow one another without a gap and
\* cover every span once, each returned span is made of the spans of its
\* group, no group has spans of two pages, and the returned spans are in the
\* order of the sorted spans.
C30_ConsolidationIsAPartition ==
    /\ pc = "consolidated" =>
          /\ Len(answer) <= Len(pdf)
          /\ \A m, n \in 1..Len(spans_in_order) :
                m < n => ~span_before(spans_in_order[n], spans_in_order[m])
          /\ \A sp \in {pdf[n] : n \in 1..Len(pdf)} :
                Cardinality({n \in 1..Len(spans_in_order) :
                                /\ spans_in_order[n].text = sp.text
                                /\ spans_in_order[n].page = sp.page
                                /\ spans_in_order[n].bbox = sp.bbox}) = 1
          /\ \A k \in 1..Len(answer) : answer[k].size[2] >= 1
          /\ group_start(Len(answer) + 1) = Len(pdf) + 1
          /\ \A k \in 1..Len(answer) :
                LET group == group_of(k)
                IN  /\ answer[k].src = group[1].src
                    /\ answer[k].text = combine_text(group)
                    /\ answer[k].size[1] = SumSeq([n \in 1..Len(group) |-> group[n].size[1]])
                    /\ \A n \in 1..Len(group) : group[n].page = answer[k].page
          /\ \A k, l \in 1..Len(answer) : k < l => ~span_before(answer[l], answer[k])

\* three spans given from the last to the first, two of a line of the first
\* page and one of the second page: two spans are returned, the first of them
\* made of the two of the first page
C30_Witness ==
    /\ pc = "consolidated"
    /\ Len(pdf) = 3
    /\ pdf[1].page = 1
    /\ span_before(pdf[3], pdf[2])
    /\ Len(answer) = 2
    /\ answer[1].size[2] = 2
    /\ answer[1].text = "Our plan"
    /\ answer[2].page = 1

====
